---- MODULE Spec2Model ----
(***************************************************************************)
(* Model of the vehicle-intelligence ML service: the /process pipeline of  *)
(* ml-service/src/api/process.py (validation, service construction, frame  *)
(* extraction, the asyncio.gather fan-out of the four analysis stages,     *)
(* report synthesis), the path validator of utils/path_validator.py and    *)
(* the ModelRegistry of services/model_registry.py.                        *)
(*                                                                         *)
(* Paths are sequences of components; an absolute path starts with the     *)
(* component "/".  Confidences are percentages (0 .. 100).  Elapsed time   *)
(* is counted in seconds and advances in steps of TickSeconds.             *)
(***************************************************************************)
EXTENDS Integers, Sequences, FiniteSets, TLC

VARIABLES
    \* ---- /process request (process.py) ----
    mock,            \* os.getenv("MOCK_MODE") == "true"
    body,            \* the JSON body of the POST, as sent
    request,         \* the ProcessRequest parsed from it (validation may rewrite it)
    fs,              \* file system: resolved path -> "absent" | "file" | "dir"
    pc,              \* position of the process_video coroutine
    status,          \* HTTP status of the response (0: no response yet)
    failedIn,        \* where process_video was when it raised its HTTPException
    existsChecked,   \* os.path.exists / isfile has been called by _validate_input_files
    exState,         \* frame extraction: "idle" | "running" | "returned" | "raised" | "timedout"
    exElapsed,       \* seconds the orchestrator has waited in asyncio.wait_for(extract_frames)
    frames,          \* relative frame paths returned by extract_video_frames
    stage,           \* task of each analysis stage: "idle" | "running" | "done" | "failed"
    stageFrames,     \* the frame path list handed to each stage
    gatherExc,       \* first exception asyncio.gather has propagated to the orchestrator
    odoPc,           \* position inside _process_odometer
    odoElapsed,      \* seconds waited in asyncio.wait_for(odometer_reader.read)
    dashboard_frames,\* paths returned by dashboard_detector.detect
    odometer_data,   \* result of the odometer stage
    synthCalled,     \* report_generator.generate has been invoked
    respFrames,      \* frames field of the success payload
    \* ---- ModelRegistry (model_registry.py) ----
    _yolo_model,     \* "None" | "loaded"
    _clip_model,
    _clip_processor,
    _initialized,
    loads,           \* how many times each model has been loaded
    initCalls,       \* calls of initialize_all_models made so far
    warned,          \* the last call logged the "already initialized" warning
    lastGet,         \* the last accessor call: its name, its result, is_initialized then
    \* ---- the service process over several requests (main.py, process.py 42-103) ----
    app_state_model_registry, \* app.state.model_registry: "None" | "registry"
    svcPc,           \* "starting" | "serving" | the service whose constructor runs next
    handled,         \* /process requests whose service construction has ended
    model_loads,     \* process-wide count of loads: YOLO("yolov8n.pt"), CLIP from_pretrained
    \* ---- one call of the Gemini collaborator with its retry loop ----
    \* (report_generator.py 64-157, odometer_reader.py 274-419)
    llmCaller,       \* "report" (_generate_sync) | "odometer" (_validate_ocr_readings_with_gemini)
    api_key_ok,      \* the API key and the model are configured
    llmPc,           \* "entry" | "submit" | "parse" | "blocked" | "returned" | "raised"
    attempt,         \* loop variable of `for attempt in range(max_retries + 1)`
    outcomes,        \* what the collaborator did in each attempt made so far
    sleeps,          \* arguments of the time.sleep calls made so far
    llmResult,       \* what the call returned
    \* ---- the confidence a stage has just computed ----
    confSource,      \* which computation: "scratch", "rust", "dent", "odometer_ocr", ...
    confValue,       \* its result, as a percentage
    \* ---- the files two requests persist, the paths they return ----
    inspection_ids,  \* request -> its inspection_id
    storePc,         \* request -> "extract" | "damage" | "exhaust" | "done"
    nframes,         \* request -> number of frames extracted
    written,         \* request -> the files it has written (resolved paths)
    response_paths,  \* request -> the path-bearing fields of its response
    \* ---- one run of the damage engine ----
    dmgPc,            \* "idle" | "makedirs" | "loop" | "returned" | "raised"
    frame_idx,        \* index of the frame the loop is at
    detected_regions, \* damage type -> the accepted <<center_x, center_y, frame_idx>>
    lastCandidate,    \* the detection the deduplication check examined last
    ncand,            \* number of detections examined so far
    counts,           \* damage type -> scratches_count, dents_count, rust_count
    conf_sum,         \* sum of the confidences in damage_locations, in percent
    verdict,          \* the dictionary returned, or NoVerdict
    frame_raised,     \* whether the frame before frame_idx was left by an exception
    \* ---- the severity of growing totals at one mean confidence ----
    sev_total,        \* total_damage
    sev_mean,         \* avg_confidence, in percent
    sev_out,          \* the severity computed for them, "none" before
    sev_prev,         \* the severity computed for the smaller total before
    \* ---- one run of the frame extractor ----
    video,            \* the opened video: its reported fps and the frames it decodes
    xPc,              \* "idle" | "open" | "loop" | "returned" | "raised"
    frame_interval,   \* sampling interval, NoValue before it is computed
    frame_count,      \* frames decoded so far
    saved_count,      \* frames saved so far
    frame_paths,      \* the saved frames, in the order saved
    skipped_blurry,   \* frames passed over as blurry
    skipped_duplicate, \* frames passed over as duplicates
    \* ---- one internal exception of /process and the response it gets ----
    node_env,         \* os.getenv("NODE_ENV")
    exc,              \* the exception raised: its class and its message
    errSite,          \* where it was raised, "none" before
    errStatus,        \* status_code of the HTTPException, 0 before
    errDetail,        \* its detail
    \* ---- the end of a run of the damage engine: the verdict is put together ----
    retained,         \* the detections retained, in the order they were appended
    damage_locations, \* the list the engine sorts and cuts
    tally,            \* damage type -> the count kept for it
    asmPc,            \* "idle" | "loop_done" | "sorted" | "returned"
    result            \* the dictionary returned, or NoVerdict

pvars == <<mock, body, request, fs, pc, status, failedIn, existsChecked, exState, exElapsed, frames,
           stage, stageFrames, gatherExc, odoPc, odoElapsed,
           dashboard_frames, odometer_data, synthCalled, respFrames>>
rvars == <<_yolo_model, _clip_model, _clip_processor, _initialized, loads,
           initCalls, warned, lastGet>>
svars == <<app_state_model_registry, svcPc, handled, model_loads>>
gvars == <<llmCaller, api_key_ok, llmPc, attempt, outcomes, sleeps, llmResult>>
cvars == <<confSource, confValue>>
fvars == <<inspection_ids, storePc, nframes, written, response_paths>>
dvars == <<dmgPc, frame_idx, detected_regions, lastCandidate, ncand, counts, conf_sum, verdict,
           frame_raised>>
mvars == <<sev_total, sev_mean, sev_out, sev_prev>>
xvars == <<video, xPc, frame_interval, frame_count, saved_count, frame_paths, skipped_blurry, skipped_duplicate>>
evars == <<node_env, exc, errSite, errStatus, errDetail>>
lvars == <<retained, damage_locations, tally, asmPc, result>>
vars == <<pvars, rvars, svars, gvars, cvars, fvars, dvars, mvars, xvars, evars, lvars>>
\* what the actions of one part of the program leave alone
notP == <<rvars, svars, gvars, cvars, fvars, dvars, mvars, xvars, evars, lvars>>
notR == <<pvars, svars, gvars, cvars, fvars, dvars, mvars, xvars, evars, lvars>>
notS == <<pvars, rvars, gvars, cvars, fvars, dvars, mvars, xvars, evars, lvars>>
notG == <<pvars, rvars, svars, cvars, fvars, dvars, mvars, xvars, evars, lvars>>
notC == <<pvars, rvars, svars, gvars, fvars, dvars, mvars, xvars, evars, lvars>>
notF == <<pvars, rvars, svars, gvars, cvars, dvars, mvars, xvars, evars, lvars>>
notD == <<pvars, rvars, svars, gvars, cvars, fvars, mvars, xvars, evars, lvars>>
notM == <<pvars, rvars, svars, gvars, cvars, fvars, dvars, xvars, evars, lvars>>
notX == <<pvars, rvars, svars, gvars, cvars, fvars, dvars, mvars, evars, lvars>>
notE == <<pvars, rvars, svars, gvars, cvars, fvars, dvars, mvars, xvars, lvars>>
notL == <<pvars, rvars, svars, gvars, cvars, fvars, dvars, mvars, xvars, evars>>

-----------------------------------------------------------------------------
(* Bounds of the model *)

\* the extractor returns between 0 and MaxFrames frames
MaxFrames == 2
\* granularity of the clock, in seconds
TickSeconds == 60
\* calls of initialize_all_models explored
MaxInitCalls == 3
\* /process requests handled by one service process
MaxRequests == 3

\* frames handed to the damage engine, detections it examines in one run
MaxDamageFrames == 4
MaxCandidates == 2
\* detections retained before a severity is computed
MaxDetections == 11
\* frames the short videos decode
MaxDecodedFrames == 7
\* detections a run retains before its verdict is put together
MaxRetained == 21

(* Program constants *)

EXTRACT_TIMEOUT == 300
ODOMETER_TIMEOUT == 60
HTTP_200_OK == 200
HTTP_400_BAD_REQUEST == 400
HTTP_404_NOT_FOUND == 404
HTTP_408_REQUEST_TIMEOUT == 408
HTTP_500_INTERNAL_SERVER_ERROR == 500
\* max_retries of both Gemini retry loops
max_retries == 2
\* timeout_seconds of future.result in _generate_sync
REPORT_TIMEOUT_SECONDS == 60
\* timeout_seconds of future.result in _validate_ocr_readings_with_gemini
VALIDATION_TIMEOUT_SECONDS == 30

-----------------------------------------------------------------------------
(* Paths *)

\* None / "" : both are falsy for `if request.odometer_image_path`
NoPath == <<>>

\* the repository checkout, the directory the service runs in, and __file__'s
\* third dirname (the ml-service directory)
RepoRoot == <<"/", "repo">>
MlServiceDir == RepoRoot \o <<"ml-service">>
Cwd == MlServiceDir

IsAbs(p) == Len(p) > 0 /\ p[1] = "/"

\* os.path.join(a, b)
Join(a, b) == IF IsAbs(b) THEN b ELSE a \o b

\* os.path.normpath of an absolute path: "." dropped, ".." removes the
\* component before it and stays at the root
RECURSIVE NormFrom(_, _)
NormFrom(acc, rest) ==
    IF rest = <<>> THEN acc
    ELSE LET c == Head(rest) IN
         IF c = "." \/ c = "/" THEN NormFrom(acc, Tail(rest))
         ELSE IF c = ".."
              THEN NormFrom(IF Len(acc) > 1 THEN SubSeq(acc, 1, Len(acc) - 1) ELSE acc,
                            Tail(rest))
              ELSE NormFrom(Append(acc, c), Tail(rest))

\* os.path.abspath(p) / Path(p).resolve() on a file system without symlinks
AbsPath(p) == NormFrom(<<"/">>, IF IsAbs(p) THEN p ELSE Cwd \o p)
Resolve(p) == AbsPath(p)

RECURSIVE CommonLen(_, _)
CommonLen(a, b) ==
    IF a = <<>> \/ b = <<>> \/ Head(a) # Head(b) THEN 0
    ELSE 1 + CommonLen(Tail(a), Tail(b))

\* os.path.relpath(path, start)
RelPath(path, start) ==
    LET a == AbsPath(path)
        s == AbsPath(start)
        k == CommonLen(a, s)
        ups == [i \in 1 .. (Len(s) - k) |-> ".."]
        rel == ups \o SubSeq(a, k + 1, Len(a))
    IN  IF rel = <<>> THEN <<".">> ELSE rel

get_backend_root == Join(MlServiceDir, <<"..">>)

UploadsDir(backend_root) == Join(Join(backend_root, <<"backend">>), <<"uploads">>)

convert_to_relative_path(abs_path, backend_root) ==
    RelPath(abs_path, UploadsDir(backend_root))

-----------------------------------------------------------------------------
(* PathValidator *)

\* PathValidator.__init__ with ALLOWED_UPLOAD_PATHS unset:
\* Path(__file__).parent.parent.parent.parent / "backend" / "uploads", resolved
allowed_base_paths == { Resolve(RepoRoot \o <<"backend", "uploads">>) }

\* path.relative_to(parent) succeeds
_is_subpath(path, parent) ==
    Len(parent) <= Len(path) /\ SubSeq(path, 1, Len(parent)) = parent

\* is_safe_path comparing the path as given, without Path.resolve()
is_safe_path_lexical(file_path) ==
    IF file_path = NoPath THEN FALSE
    ELSE \E base \in allowed_base_paths : _is_subpath(file_path, base)

is_safe_path(file_path) ==
    IF file_path = NoPath THEN FALSE
    ELSE \E base \in allowed_base_paths : _is_subpath(Resolve(file_path), base)

validate_or_raise(file_path) == IF is_safe_path(file_path) THEN "ok" ELSE "ValueError"

-----------------------------------------------------------------------------
(* Requests and the file system they refer to *)

Uploads == RepoRoot \o <<"backend", "uploads">>
TraversalPath == <<"..", "..", "etc", "passwd">>

VideoPaths ==
    { Uploads \o <<"v.mp4">>,
      Uploads \o <<"tmp", "..", "v.mp4">>,
      TraversalPath,
      Uploads \o <<"..", "secret.mp4">>,
      Uploads,
      NoPath }

OdometerPaths ==
    { NoPath,
      Uploads \o <<"odo.jpg">>,
      <<"..", "backend", "uploads", "odo.jpg">>,
      TraversalPath }

InspectionIds == { "insp1" }

VideoFile == Uploads \o <<"v.mp4">>
OdometerFile == Uploads \o <<"odo.jpg">>
PasswdFile == <<"/", "etc", "passwd">>
SecretFile == RepoRoot \o <<"backend", "secret.mp4">>

FileSystems ==
    { f \in [ {VideoFile, OdometerFile, PasswdFile, SecretFile, Uploads}
              -> {"absent", "file", "dir"} ] :
        /\ f[Uploads] = "dir"
        /\ f[SecretFile] = "file"
        /\ f[OdometerFile] # "dir"
        /\ f[PasswdFile] # "dir" }

Kind(p) ==
    IF p = NoPath THEN "absent"
    ELSE LET r == Resolve(p) IN IF r \in DOMAIN fs THEN fs[r] ELSE "absent"

\* os.path.exists, os.path.isfile
exists(p) == Kind(p) # "absent"
isfile(p) == Kind(p) = "file"

-----------------------------------------------------------------------------
(* Values of the pipeline *)

Stages == { "identify", "odometer", "damage", "exhaust" }

\* exception classes told apart by the handlers of process_video
ExcKinds == { "ValueError", "FileNotFoundError", "RuntimeError" }
NoExc == "none"

NoValue == -1
NoData == [ value |-> NoValue, confidence |-> -1, speedometer_image_path |-> NoPath ]

FrameFile == << "frame_0000.jpg", "frame_0001.jpg", "frame_0002.jpg", "frame_0003.jpg" >>
FrameDashboardFile ==
    << "frame_0000_dashboard.jpg", "frame_0001_dashboard.jpg",
       "frame_0002_dashboard.jpg", "frame_0003_dashboard.jpg" >>

\* get_mock_response(...).frames
MockFrames == << <<"frames", "sample", "frame_0001.jpg">>,
                 <<"frames", "sample", "frame_0002.jpg">> >>

\* frames_dir of extract_video_frames
\* the components os.path.join and the file system see in an inspection id:
\* the schema (process.py 245-249) accepts any string
IdComponents(inspection_id) ==
    CASE inspection_id = "../../x" -> <<"..", "..", "x">>
      [] inspection_id = "insp2/../insp1" -> <<"insp2", "..", "insp1">>
      [] inspection_id = "/tmp/x" -> <<"/", "tmp", "x">>
      [] OTHER -> <<inspection_id>>

FramesDir(inspection_id, backend_root) ==
    Join(Join(UploadsDir(backend_root), <<"frames">>), IdComponents(inspection_id))

\* the list FrameExtractor.extract_frames returns when it accepted n frames
ExtractedFrames(n, output_dir) == [ i \in 1 .. n |-> Join(output_dir, <<FrameFile[i]>>) ]

\* frames_absolute of process_video and of _process_odometer
FramesAbsolute(fr, backend_root) ==
    [ i \in 1 .. Len(fr) |-> Join(UploadsDir(backend_root), fr[i]) ]

\* the handlers at the end of process_video: exception class -> status
StatusOfException(kind) ==
    IF kind = "ValueError" THEN HTTP_400_BAD_REQUEST
    ELSE IF kind = "FileNotFoundError" THEN HTTP_404_NOT_FOUND
    ELSE HTTP_500_INTERNAL_SERVER_ERROR

\* what OdometerReader.read can return for a list of images
Readings(images) ==
    IF images = <<>>
    THEN { [ value |-> NoValue, confidence |-> 0, speedometer_image_path |-> NoPath ] }
    ELSE { [ value |-> NoValue, confidence |-> 0, speedometer_image_path |-> images[1] ] }
         \cup { [ value |-> 45230, confidence |-> 88, speedometer_image_path |-> images[i] ] :
                  i \in 1 .. Len(images) }

\* the fallback of read_odometer_from_image on timeout or exception
OdometerDefault(odometer_image_path) ==
    [ value |-> NoValue, confidence |-> 0, speedometer_image_path |-> odometer_image_path ]

\* the tail of read_odometer_from_image: the path is made storage-relative
RelativeImageData(data, odometer_image_path, backend_root) ==
    [ data EXCEPT !.speedometer_image_path =
        IF data.speedometer_image_path # NoPath
        THEN convert_to_relative_path(data.speedometer_image_path, backend_root)
        ELSE convert_to_relative_path(odometer_image_path, backend_root) ]

\* the tail of read_odometer_from_frames
RelativeFramesData(data, backend_root) ==
    [ data EXCEPT !.speedometer_image_path =
        IF data.speedometer_image_path # NoPath
        THEN convert_to_relative_path(data.speedometer_image_path, backend_root)
        ELSE NoPath ]

-----------------------------------------------------------------------------
(* process_video *)

PInit ==
    /\ mock \in BOOLEAN
    /\ body \in [ video_path : VideoPaths,
                  inspection_id : InspectionIds,
                  odometer_image_path : OdometerPaths ]
    /\ request = body
    /\ fs \in FileSystems
    /\ pc = "Received"
    /\ status = 0
    /\ failedIn = "none"
    /\ existsChecked = FALSE
    /\ exState = "idle"
    /\ exElapsed = 0
    /\ frames = <<>>
    /\ stage = [ s \in Stages |-> "idle" ]
    /\ stageFrames = [ s \in Stages |-> <<>> ]
    /\ gatherExc = NoExc
    /\ odoPc = "idle"
    /\ odoElapsed = 0
    /\ dashboard_frames = <<>>
    /\ odometer_data = NoData
    /\ synthCalled = FALSE
    /\ respFrames = <<>>

\* raise HTTPException(status_code = code) out of process_video
Fail(code) ==
    /\ pc' = "Failed"
    /\ status' = code
    /\ failedIn' = pc

\* process.py 289-292: mock mode answers before any validation
MockResponse ==
    /\ pc = "Received"
    /\ mock
    /\ pc' = "Complete"
    /\ status' = HTTP_200_OK
    /\ respFrames' = MockFrames
    /\ UNCHANGED <<mock, body, request, fs, failedIn, existsChecked, exState, exElapsed, frames, stage,
                   stageFrames, gatherExc, odoPc, odoElapsed, dashboard_frames,
                   odometer_data, synthCalled>>
    /\ UNCHANGED notP

\* process.py 294-296: the try block of process_video is entered
StartProcessing ==
    /\ pc = "Received"
    /\ ~mock
    /\ pc' = "Validating"
    /\ UNCHANGED <<mock, body, request, fs, status, failedIn, existsChecked, exState, exElapsed, frames,
                   stage, stageFrames, gatherExc, odoPc, odoElapsed,
                   dashboard_frames, odometer_data, synthCalled, respFrames>>
    /\ UNCHANGED notP

\* _validate_input_files treating a missing odometer image like a missing video
ValidateInputFilesStrict ==
    /\ pc = "Validating"
    /\ IF validate_or_raise(request.video_path) # "ok"
       THEN /\ Fail(HTTP_400_BAD_REQUEST)
            /\ UNCHANGED <<request, existsChecked>>
       ELSE IF /\ request.odometer_image_path # NoPath
               /\ validate_or_raise(request.odometer_image_path) # "ok"
       THEN /\ Fail(HTTP_400_BAD_REQUEST)
            /\ UNCHANGED <<request, existsChecked>>
       ELSE /\ existsChecked' = TRUE
            /\ IF \/ ~exists(request.video_path)
                  \/ ~isfile(request.video_path)
                  \/ (request.odometer_image_path # NoPath
                        /\ ~exists(request.odometer_image_path))
               THEN /\ Fail(HTTP_400_BAD_REQUEST)
                    /\ UNCHANGED request
               ELSE /\ pc' = "InitServices"
                    /\ UNCHANGED <<request, status, failedIn>>
    /\ UNCHANGED <<mock, body, fs, exState, exElapsed, frames, stage, stageFrames,
                   gatherExc, odoPc, odoElapsed, dashboard_frames, odometer_data,
                   synthCalled, respFrames>>
    /\ UNCHANGED notP

\* _validate_input_files(request)
ValidateInputFiles ==
    /\ pc = "Validating"
    /\ IF validate_or_raise(request.video_path) # "ok"
       THEN /\ Fail(HTTP_400_BAD_REQUEST)
            /\ UNCHANGED <<request, existsChecked>>
       ELSE IF /\ request.odometer_image_path # NoPath
               /\ validate_or_raise(request.odometer_image_path) # "ok"
       THEN /\ Fail(HTTP_400_BAD_REQUEST)
            /\ UNCHANGED <<request, existsChecked>>
       ELSE /\ existsChecked' = TRUE
            /\ IF ~exists(request.video_path) \/ ~isfile(request.video_path)
               THEN /\ Fail(HTTP_400_BAD_REQUEST)
                    /\ UNCHANGED request
               ELSE /\ request' =
                         IF /\ request.odometer_image_path # NoPath
                            /\ ~exists(request.odometer_image_path)
                         THEN [ request EXCEPT !.odometer_image_path = NoPath ]
                         ELSE request
                    /\ pc' = "InitServices"
                    /\ UNCHANGED <<status, failedIn>>
    /\ UNCHANGED <<mock, body, fs, exState, exElapsed, frames, stage, stageFrames, gatherExc, odoPc, odoElapsed, dashboard_frames, odometer_data,
                   synthCalled, respFrames>>
    /\ UNCHANGED notP

\* initialize_ml_services(model_registry) inside its try block (process.py 305-313);
\* on success the coroutine goes on to await extract_video_frames (315-321).
\* Whether the constructors return or raise is decided by the services.
InitializeMlServices ==
    /\ pc = "InitServices"
    /\ \E ok \in BOOLEAN :
         IF ok
         THEN /\ pc' = "Extracting"
              /\ exState' = "running"
              /\ exElapsed' = 0
              /\ UNCHANGED <<status, failedIn>>
         ELSE /\ Fail(HTTP_500_INTERNAL_SERVER_ERROR)
              /\ UNCHANGED <<exState, exElapsed>>
    /\ UNCHANGED <<mock, body, request, fs, existsChecked, frames, stage, stageFrames, gatherExc, odoPc, odoElapsed, dashboard_frames, odometer_data,
                   synthCalled, respFrames>>
    /\ UNCHANGED notP

\* the clock: time passes for whichever asyncio.wait_for is pending
Tick ==
    /\ \/ (pc = "Extracting" /\ exState = "running" /\ exElapsed < EXTRACT_TIMEOUT)
       \/ (odoPc = "image" /\ odoElapsed < ODOMETER_TIMEOUT)
    /\ exElapsed' = IF pc = "Extracting" /\ exState = "running" /\ exElapsed < EXTRACT_TIMEOUT
                    THEN exElapsed + TickSeconds ELSE exElapsed
    /\ odoElapsed' = IF odoPc = "image" /\ odoElapsed < ODOMETER_TIMEOUT
                     THEN odoElapsed + TickSeconds ELSE odoElapsed
    /\ UNCHANGED <<mock, body, request, fs, pc, status, failedIn, existsChecked, exState, frames, stage,
                   stageFrames, gatherExc, odoPc, dashboard_frames,
                   odometer_data, synthCalled, respFrames>>
    /\ UNCHANGED notP

\* the tasks asyncio.gather creates (process.py 364-370) and their arguments
\* (334, 341, 348, 354)
StartStages(fr, backend_root) ==
    /\ stage' = [ s \in Stages |-> "running" ]
    /\ stageFrames' = [ s \in Stages |->
                          IF s \in { "identify", "odometer" } THEN fr
                          ELSE FramesAbsolute(fr, backend_root) ]
    /\ odoPc' = "branch"

\* ExtractReturn without the `if not frames_relative` check (process.py 139-144)
ExtractReturnUnchecked ==
    /\ pc = "Extracting"
    /\ exState = "running"
    /\ exElapsed < EXTRACT_TIMEOUT
    /\ \E n \in 0 .. MaxFrames :
         LET backend_root == get_backend_root
             extracted == ExtractedFrames(n, FramesDir(request.inspection_id, backend_root))
             frames_relative == [ i \in 1 .. n |->
                                    convert_to_relative_path(extracted[i], backend_root) ]
         IN  /\ exState' = "returned"
             /\ frames' = frames_relative
             /\ pc' = "ParallelAnalysis"
             /\ StartStages(frames_relative, backend_root)
             /\ UNCHANGED <<status, failedIn>>
    /\ UNCHANGED <<mock, body, request, fs, existsChecked, exElapsed, gatherExc,
                   odoElapsed, dashboard_frames, odometer_data, synthCalled, respFrames>>
    /\ UNCHANGED notP

\* extract_video_frames: frame_extractor.extract_frames returns n frames within
\* the timeout (process.py 117-122, 136-147), then process_video 323-370
ExtractReturn ==
    /\ pc = "Extracting"
    /\ exState = "running"
    /\ exElapsed < EXTRACT_TIMEOUT
    /\ \E n \in 0 .. MaxFrames :
         LET backend_root == get_backend_root
             extracted == ExtractedFrames(n, FramesDir(request.inspection_id, backend_root))
             frames_relative == [ i \in 1 .. n |->
                                    convert_to_relative_path(extracted[i], backend_root) ]
         IN  /\ exState' = "returned"
             /\ IF frames_relative = <<>>
                THEN /\ Fail(HTTP_400_BAD_REQUEST)
                     /\ UNCHANGED <<frames, stage, stageFrames, odoPc>>
                ELSE /\ frames' = frames_relative
                     /\ pc' = "ParallelAnalysis"
                     /\ StartStages(frames_relative, backend_root)
                     /\ UNCHANGED <<status, failedIn>>
    /\ UNCHANGED <<mock, body, request, fs, existsChecked, exElapsed, gatherExc,
                   odoElapsed, dashboard_frames, odometer_data, synthCalled, respFrames>>
    /\ UNCHANGED notP

\* ExtractRaise with the exception logged and swallowed: the pipeline goes on
\* with no frames
ExtractRaiseSwallowed ==
    /\ pc = "Extracting"
    /\ exState = "running"
    /\ exElapsed < EXTRACT_TIMEOUT
    /\ exState' = "raised"
    /\ pc' = "ParallelAnalysis"
    /\ StartStages(<<>>, get_backend_root)
    /\ UNCHANGED <<mock, body, request, fs, status, failedIn, existsChecked, exElapsed,
                   frames, gatherExc, odoElapsed, dashboard_frames, odometer_data,
                   synthCalled, respFrames>>
    /\ UNCHANGED notP

\* extract_video_frames: extract_frames raises (process.py 129-134)
ExtractRaise ==
    /\ pc = "Extracting"
    /\ exState = "running"
    /\ exElapsed < EXTRACT_TIMEOUT
    /\ exState' = "raised"
    /\ Fail(HTTP_500_INTERNAL_SERVER_ERROR)
    /\ UNCHANGED <<mock, body, request, fs, existsChecked, exElapsed, frames, stage, stageFrames,
                   gatherExc, odoPc, odoElapsed, dashboard_frames, odometer_data,
                   synthCalled, respFrames>>
    /\ UNCHANGED notP

\* ExtractTimeout with the timeout falling into the generic `except Exception` clause
ExtractTimeoutAsFailure ==
    /\ pc = "Extracting"
    /\ exState = "running"
    /\ exElapsed >= EXTRACT_TIMEOUT
    /\ exState' = "timedout"
    /\ Fail(HTTP_500_INTERNAL_SERVER_ERROR)
    /\ UNCHANGED <<mock, body, request, fs, existsChecked, exElapsed, frames, stage,
                   stageFrames, gatherExc, odoPc, odoElapsed, dashboard_frames,
                   odometer_data, synthCalled, respFrames>>
    /\ UNCHANGED notP

\* extract_video_frames: asyncio.wait_for gives up (process.py 123-128)
ExtractTimeout ==
    /\ pc = "Extracting"
    /\ exState = "running"
    /\ exElapsed >= EXTRACT_TIMEOUT
    /\ exState' = "timedout"
    /\ Fail(HTTP_408_REQUEST_TIMEOUT)
    /\ UNCHANGED <<mock, body, request, fs, existsChecked, exElapsed, frames, stage, stageFrames,
                   gatherExc, odoPc, odoElapsed, dashboard_frames, odometer_data,
                   synthCalled, respFrames>>
    /\ UNCHANGED notP

\* identify_vehicle, detect_damage, classify_exhaust: the awaited service call returns
StageReturn(s) ==
    /\ s \in Stages \ { "odometer" }
    /\ stage[s] = "running"
    /\ stage' = [ stage EXCEPT ![s] = "done" ]
    /\ UNCHANGED <<mock, body, request, fs, pc, status, failedIn, existsChecked, exState, exElapsed, frames,
                   stageFrames, gatherExc, odoPc, odoElapsed, dashboard_frames,
                   odometer_data, synthCalled, respFrames>>
    /\ UNCHANGED notP

\* a stage task ends with an exception; asyncio.gather(return_exceptions=False)
\* hands the first one to the awaiting orchestrator and leaves the other tasks running
TaskRaises(s, kind) ==
    /\ stage' = [ stage EXCEPT ![s] = "failed" ]
    /\ gatherExc' = IF pc = "ParallelAnalysis" /\ gatherExc = NoExc THEN kind ELSE gatherExc

\* identify_vehicle, detect_damage, classify_exhaust: the awaited service call raises
StageRaise(s) ==
    /\ s \in Stages \ { "odometer" }
    /\ stage[s] = "running"
    /\ \E kind \in ExcKinds : TaskRaises(s, kind)
    /\ UNCHANGED <<mock, body, request, fs, pc, status, failedIn, existsChecked, exState, exElapsed, frames,
                   stageFrames, odoPc, odoElapsed, dashboard_frames, odometer_data,
                   synthCalled, respFrames>>
    /\ UNCHANGED notP

\* OdometerBranch without the os.path.exists test: a given image is always read
OdometerBranchUnchecked ==
    /\ odoPc = "branch"
    /\ IF request.odometer_image_path # NoPath
       THEN odoPc' = "image" /\ odoElapsed' = 0
       ELSE odoPc' = "dashboard" /\ UNCHANGED odoElapsed
    /\ UNCHANGED <<mock, body, request, fs, pc, status, failedIn, existsChecked, exState,
                   exElapsed, frames, stage, stageFrames, gatherExc, dashboard_frames,
                   odometer_data, synthCalled, respFrames>>
    /\ UNCHANGED notP

\* _process_odometer (process.py 468-472): which way the reading is obtained
OdometerBranch ==
    /\ odoPc = "branch"
    /\ IF request.odometer_image_path # NoPath /\ exists(request.odometer_image_path)
       THEN odoPc' = "image" /\ odoElapsed' = 0
       ELSE odoPc' = "dashboard" /\ UNCHANGED odoElapsed
    /\ UNCHANGED <<mock, body, request, fs, pc, status, failedIn, existsChecked, exState, exElapsed, frames,
                   stage, stageFrames, gatherExc, dashboard_frames, odometer_data,
                   synthCalled, respFrames>>
    /\ UNCHANGED notP

\* the odometer task returns `data`
OdometerDone(data, how) ==
    /\ odometer_data' = data
    /\ odoPc' = how
    /\ stage' = [ stage EXCEPT !["odometer"] = "done" ]

\* read_odometer_from_image: odometer_reader.read returns within the timeout
OdoImageReturn ==
    /\ odoPc = "image"
    /\ odoElapsed < ODOMETER_TIMEOUT
    /\ \E r \in Readings(<<request.odometer_image_path>>) :
         OdometerDone(RelativeImageData(r, request.odometer_image_path, get_backend_root),
                      "image_returned")
    /\ UNCHANGED <<mock, body, request, fs, pc, status, failedIn, existsChecked, exState, exElapsed, frames,
                   stageFrames, gatherExc, odoElapsed, dashboard_frames,
                   synthCalled, respFrames>>
    /\ UNCHANGED notP

\* read_odometer_from_image: odometer_reader.read raises (process.py 166-172)
OdoImageRaise ==
    /\ odoPc = "image"
    /\ odoElapsed < ODOMETER_TIMEOUT
    /\ OdometerDone(RelativeImageData(OdometerDefault(request.odometer_image_path),
                                      request.odometer_image_path, get_backend_root),
                    "image_raised")
    /\ UNCHANGED <<mock, body, request, fs, pc, status, failedIn, existsChecked, exState, exElapsed, frames,
                   stageFrames, gatherExc, odoElapsed, dashboard_frames,
                   synthCalled, respFrames>>
    /\ UNCHANGED notP

\* OdoImageTimeout without the `except asyncio.TimeoutError` clause: the timeout
\* leaves the stage as an exception
OdoImageTimeoutPropagates ==
    /\ odoPc = "image"
    /\ odoElapsed >= ODOMETER_TIMEOUT
    /\ TaskRaises("odometer", "RuntimeError")
    /\ odoPc' = "image_timeout"
    /\ UNCHANGED <<mock, body, request, fs, pc, status, failedIn, existsChecked, exState,
                   exElapsed, frames, stageFrames, odoElapsed, dashboard_frames,
                   odometer_data, synthCalled, respFrames>>
    /\ UNCHANGED notP

\* read_odometer_from_image: asyncio.wait_for gives up (process.py 159-165)
OdoImageTimeout ==
    /\ odoPc = "image"
    /\ odoElapsed >= ODOMETER_TIMEOUT
    /\ OdometerDone(RelativeImageData(OdometerDefault(request.odometer_image_path),
                                      request.odometer_image_path, get_backend_root),
                    "image_timeout")
    /\ UNCHANGED <<mock, body, request, fs, pc, status, failedIn, existsChecked, exState, exElapsed, frames,
                   stageFrames, gatherExc, odoElapsed, dashboard_frames,
                   synthCalled, respFrames>>
    /\ UNCHANGED notP

\* frame_path.replace(".jpg", "_dashboard.jpg") (dashboard_detector.py 65)
DashboardPath(frame_path) ==
    LET name == frame_path[Len(frame_path)]
        i == CHOOSE j \in 1 .. Len(FrameFile) : FrameFile[j] = name
    IN  SubSeq(frame_path, 1, Len(frame_path) - 1) \o <<FrameDashboardFile[i]>>

\* read_odometer_from_frames: dashboard_detector.detect returns the crops of the
\* frames it could read (process.py 471, 190; dashboard_detector.py 35-73)
OdoDashboardReturn ==
    /\ odoPc = "dashboard"
    /\ LET frames_absolute == FramesAbsolute(stageFrames["odometer"], get_backend_root)
       IN  \E k \in { 0, Len(frames_absolute) } :
             dashboard_frames' = [ i \in 1 .. k |-> DashboardPath(frames_absolute[i]) ]
    /\ odoPc' = "read"
    /\ UNCHANGED <<mock, body, request, fs, pc, status, failedIn, existsChecked, exState, exElapsed, frames,
                   stage, stageFrames, gatherExc, odoElapsed, odometer_data,
                   synthCalled, respFrames>>
    /\ UNCHANGED notP

\* read_odometer_from_frames: odometer_reader.read returns (process.py 191-197)
OdoReadReturn ==
    /\ odoPc = "read"
    /\ \E r \in Readings(dashboard_frames) :
         OdometerDone(RelativeFramesData(r, get_backend_root), "frames_returned")
    /\ UNCHANGED <<mock, body, request, fs, pc, status, failedIn, existsChecked, exState, exElapsed, frames,
                   stageFrames, gatherExc, odoElapsed, dashboard_frames,
                   synthCalled, respFrames>>
    /\ UNCHANGED notP

\* read_odometer_from_frames: an awaited call raises; nothing catches it
OdoFramesRaise ==
    /\ odoPc \in { "dashboard", "read" }
    /\ \E kind \in ExcKinds : TaskRaises("odometer", kind)
    /\ odoPc' = "failed"
    /\ UNCHANGED <<mock, body, request, fs, pc, status, failedIn, existsChecked, exState, exElapsed, frames,
                   stageFrames, odoElapsed, dashboard_frames, odometer_data, synthCalled,
                   respFrames>>
    /\ UNCHANGED notP

\* GatherJoin as a race: the orchestrator goes on when the first stage is done
GatherJoinRace ==
    /\ pc = "ParallelAnalysis"
    /\ \E s \in Stages : stage[s] = "done"
    /\ pc' = "Synthesizing"
    /\ synthCalled' = TRUE
    /\ UNCHANGED <<mock, body, request, fs, status, failedIn, existsChecked, exState,
                   exElapsed, frames, stage, stageFrames, gatherExc, odoPc, odoElapsed,
                   dashboard_frames, odometer_data, respFrames>>
    /\ UNCHANGED notP

\* GatherJoin with return_exceptions=True: a failed stage counts as a result
GatherJoinReturnExceptions ==
    /\ pc = "ParallelAnalysis"
    /\ \A s \in Stages : stage[s] \in { "done", "failed" }
    /\ pc' = "Synthesizing"
    /\ synthCalled' = TRUE
    /\ UNCHANGED <<mock, body, request, fs, status, failedIn, existsChecked, exState,
                   exElapsed, frames, stage, stageFrames, gatherExc, odoPc, odoElapsed,
                   dashboard_frames, odometer_data, respFrames>>
    /\ UNCHANGED notP

\* asyncio.gather returns the four results; report_generator.generate is awaited
\* (process.py 364-385)
GatherJoin ==
    /\ pc = "ParallelAnalysis"
    /\ \A s \in Stages : stage[s] = "done"
    /\ pc' = "Synthesizing"
    /\ synthCalled' = TRUE
    /\ UNCHANGED <<mock, body, request, fs, status, failedIn, existsChecked, exState, exElapsed, frames,
                   stage, stageFrames, gatherExc, odoPc, odoElapsed,
                   dashboard_frames, odometer_data, respFrames>>
    /\ UNCHANGED notP

\* asyncio.gather raises the first exception; the handlers of process_video
\* turn it into a response (process.py 371-373, 401-412)
GatherRaise ==
    /\ pc = "ParallelAnalysis"
    /\ gatherExc # NoExc
    /\ Fail(StatusOfException(gatherExc))
    /\ UNCHANGED <<mock, body, request, fs, existsChecked, exState, exElapsed, frames, stage,
                   stageFrames, gatherExc, odoPc, odoElapsed, dashboard_frames,
                   odometer_data, synthCalled, respFrames>>
    /\ UNCHANGED notP

\* report_generator.generate returns; the ProcessResponse is built (process.py 380-399)
ReportReturn ==
    /\ pc = "Synthesizing"
    /\ pc' = "Complete"
    /\ status' = HTTP_200_OK
    /\ respFrames' = frames
    /\ UNCHANGED <<mock, body, request, fs, failedIn, existsChecked, exState, exElapsed, frames, stage,
                   stageFrames, gatherExc, odoPc, odoElapsed, dashboard_frames,
                   odometer_data, synthCalled>>
    /\ UNCHANGED notP

\* the uploaded odometer image is deleted by another process after validation
\* and before _process_odometer looks at it again
OdometerImageRemoved ==
    /\ pc \in { "InitServices", "Extracting", "ParallelAnalysis" }
    /\ odoPc \in { "idle", "branch" }
    /\ request.odometer_image_path # NoPath
    /\ fs[OdometerFile] = "file"
    /\ fs' = [ fs EXCEPT ![OdometerFile] = "absent" ]
    /\ UNCHANGED <<mock, body, request, pc, status, failedIn, existsChecked, exState, exElapsed, frames,
                   stage, stageFrames, gatherExc, odoPc, odoElapsed,
                   dashboard_frames, odometer_data, synthCalled, respFrames>>
    /\ UNCHANGED notP

PNext ==
    \/ MockResponse
    \/ StartProcessing
    \/ ValidateInputFiles
    \/ InitializeMlServices
    \/ Tick
    \/ ExtractReturn
    \/ ExtractRaise
    \/ ExtractTimeout
    \/ \E s \in Stages : StageReturn(s)
    \/ \E s \in Stages : StageRaise(s)
    \/ OdometerBranch
    \/ OdoImageReturn
    \/ OdoImageRaise
    \/ OdoImageTimeout
    \/ OdoDashboardReturn
    \/ OdoReadReturn
    \/ OdoFramesRaise
    \/ GatherJoin
    \/ GatherRaise
    \/ ReportReturn
    \/ OdometerImageRemoved

-----------------------------------------------------------------------------
(* ModelRegistry *)

Models == { "yolo", "clip_model", "clip_processor" }

\* how far a call of initialize_all_models gets: "ok", or the load that raises
InitOutcomes == { "ok", "yolo", "clip_model", "clip_processor" }

\* ModelRegistry.__init__
RInit ==
    /\ _yolo_model = "None"
    /\ _clip_model = "None"
    /\ _clip_processor = "None"
    /\ _initialized = FALSE
    /\ loads = [ m \in Models |-> 0 ]
    /\ initCalls = 0
    /\ warned = FALSE
    /\ lastGet = [ name |-> "none", result |-> "none", is_initialized |-> FALSE ]

\* the loads a call performs before `outcome` ends it: _load_yolo_model, then
\* CLIPModel.from_pretrained, then CLIPProcessor.from_pretrained
Loaded(outcome) ==
    IF outcome = "yolo" THEN {}
    ELSE IF outcome = "clip_model" THEN { "yolo" }
    ELSE IF outcome = "clip_processor" THEN { "yolo", "clip_model" }
    ELSE Models

\* the body of initialize_all_models after its guard (model_registry.py 41-56):
\* each load assigns its field, a failing load raises RuntimeError and the
\* flag is set only when all three loads returned
LoadAll(outcome) ==
    /\ _yolo_model' = IF "yolo" \in Loaded(outcome) THEN "loaded" ELSE _yolo_model
    /\ _clip_model' = IF "clip_model" \in Loaded(outcome) THEN "loaded" ELSE _clip_model
    /\ _clip_processor' =
         IF "clip_processor" \in Loaded(outcome) THEN "loaded" ELSE _clip_processor
    /\ loads' = [ m \in Models |-> IF m \in Loaded(outcome) THEN loads[m] + 1 ELSE loads[m] ]
    /\ _initialized' = IF outcome = "ok" THEN TRUE ELSE _initialized
    /\ warned' = FALSE

\* initialize_all_models without its `if self._initialized` guard
initialize_all_models_unguarded ==
    /\ initCalls < MaxInitCalls
    /\ initCalls' = initCalls + 1
    /\ \E outcome \in InitOutcomes : LoadAll(outcome)
    /\ UNCHANGED lastGet
    /\ UNCHANGED notR

\* ModelRegistry.initialize_all_models
initialize_all_models ==
    /\ initCalls < MaxInitCalls
    /\ initCalls' = initCalls + 1
    /\ IF _initialized
       THEN /\ warned' = TRUE
            /\ UNCHANGED <<_yolo_model, _clip_model, _clip_processor, _initialized, loads>>
       ELSE \E outcome \in InitOutcomes : LoadAll(outcome)
    /\ UNCHANGED lastGet
    /\ UNCHANGED notR

\* what an accessor does with its field
Access(name, field) ==
    lastGet' = [ name |-> name,
                 result |-> IF field = "None" THEN "RuntimeError" ELSE "model",
                 is_initialized |-> _initialized ]

get_yolo_model ==
    /\ Access("get_yolo_model", _yolo_model)
    /\ UNCHANGED <<_yolo_model, _clip_model, _clip_processor, _initialized, loads,
                   initCalls, warned>>
    /\ UNCHANGED notR

get_clip_model ==
    /\ Access("get_clip_model", _clip_model)
    /\ UNCHANGED <<_yolo_model, _clip_model, _clip_processor, _initialized, loads,
                   initCalls, warned>>
    /\ UNCHANGED notR

get_clip_processor ==
    /\ Access("get_clip_processor", _clip_processor)
    /\ UNCHANGED <<_yolo_model, _clip_model, _clip_processor, _initialized, loads,
                   initCalls, warned>>
    /\ UNCHANGED notR

RNext ==
    \/ initialize_all_models
    \/ get_yolo_model
    \/ get_clip_model
    \/ get_clip_processor

-----------------------------------------------------------------------------
(* The service process: startup and the construction of the services for   *)
(* each /process request (main.py lifespan, process.py initialize_ml_services) *)

\* the constructors initialize_ml_services calls, in its order (process.py 68-96)
ServiceOrder == << "FrameExtractor", "ReportGenerator", "OdometerReader",
                   "VehicleIdentifier", "DashboardDetector", "DamageDetector",
                   "ExhaustClassifier" >>

\* what the body of each constructor loads: YOLO("yolov8n.pt") in
\* VehicleIdentifier (35), DashboardDetector (23), DamageDetector (24) and
\* ExhaustClassifier (21); the CLIP model and processor in VehicleIdentifier
ConstructorLoads(service) ==
    [ yolo |-> IF service \in { "VehicleIdentifier", "DashboardDetector",
                                "DamageDetector", "ExhaustClassifier" } THEN 1 ELSE 0,
      clip |-> IF service = "VehicleIdentifier" THEN 1 ELSE 0 ]

\* the constructors that are handed the registry's models as keyword arguments
\* (process.py 80-96)
TakesSharedModels == { "VehicleIdentifier", "DashboardDetector", "DamageDetector",
                       "ExhaustClassifier" }

SIdle ==
    /\ app_state_model_registry = "None"
    /\ svcPc = "starting"
    /\ handled = 0
    /\ model_loads = [ yolo |-> 0, clip |-> 0 ]

SInit == SIdle

\* lifespan up to its yield (main.py 51-58): it logs, and sets nothing on app.state
lifespan ==
    /\ svcPc = "starting"
    /\ svcPc' = "serving"
    /\ UNCHANGED <<app_state_model_registry, handled, model_loads>>
    /\ UNCHANGED notS

\* process_video reads app.state.model_registry (process.py 301) and enters
\* initialize_ml_services (56-66): with a registry that is initialized it takes
\* the shared models from it, otherwise the services are left to load their own
initialize_ml_services ==
    /\ svcPc = "serving"
    /\ handled < MaxRequests
    /\ IF app_state_model_registry # "None" /\ _initialized
       THEN _yolo_model # "None" /\ _clip_model # "None" /\ _clip_processor # "None"
       ELSE TRUE
    /\ svcPc' = ServiceOrder[1]
    /\ UNCHANGED <<app_state_model_registry, handled, model_loads>>
    /\ UNCHANGED notS

\* one constructor call of initialize_ml_services.  The body of the constructor
\* loads its models itself whatever it was handed; a constructor call that is
\* given the shared models either has its body run or raises (the load fails,
\* or the keyword arguments are rejected), and process_video answers 500 (308-313)
Construct ==
    /\ svcPc \in { ServiceOrder[i] : i \in 1..Len(ServiceOrder) }
    /\ LET i == CHOOSE j \in 1..Len(ServiceOrder) : ServiceOrder[j] = svcPc
           done == i = Len(ServiceOrder)
       IN \E returns \in BOOLEAN :
            /\ (svcPc \notin TakesSharedModels) => returns
            /\ IF returns
               THEN /\ model_loads' =
                          [ m \in { "yolo", "clip" } |->
                               model_loads[m] + ConstructorLoads(svcPc)[m] ]
                    /\ svcPc' = IF done THEN "serving" ELSE ServiceOrder[i + 1]
                    /\ handled' = IF done THEN handled + 1 ELSE handled
               ELSE /\ svcPc' = "serving"
                    /\ handled' = handled + 1
                    /\ UNCHANGED model_loads
    /\ UNCHANGED app_state_model_registry
    /\ UNCHANGED notS

SNext ==
    \/ lifespan
    \/ initialize_ml_services
    \/ Construct

-----------------------------------------------------------------------------
(* One call of the Gemini collaborator: ReportGenerator._generate_sync and   *)
(* OdometerReader._validate_ocr_readings_with_gemini share the retry loop    *)

Callers == { "report", "odometer" }

\* what one executor.submit(generate_content) / future.result(timeout) can do:
\* return a response whose text holds JSON, holds no JSON, or cannot be read;
\* return None; finish only after timeout_seconds; never finish; raise
CollaboratorOutcomes ==
    { "response_json", "response_text", "response_unreadable", "none",
      "late", "never", "error_429", "error_403", "error_other" }

Responses == { "response_json", "response_text", "response_unreadable" }

timeout_seconds(caller) ==
    IF caller = "report" THEN REPORT_TIMEOUT_SECONDS ELSE VALIDATION_TIMEOUT_SECONDS

\* time.sleep(2 ** attempt)
BackoffFixed(att) == 1
Backoff(att) == 2 ^ att

\* the errors that are not retried: "429" / quota / rate limit, "403" /
\* permission / invalid in str(e)
NotRetried == { "error_429", "error_403" }

\* what the call returns when it gives up: _generate_mock_report(inspection_data)
\* for the report, None for the validation
Fallback(caller) == IF caller = "report" THEN "mock_report" ELSE "None"

GIdle ==
    /\ llmCaller = "report"
    /\ api_key_ok = FALSE
    /\ llmPc = "entry"
    /\ attempt = 0
    /\ outcomes = <<>>
    /\ sleeps = <<>>
    /\ llmResult = "none"

GInit ==
    /\ llmCaller \in Callers
    /\ api_key_ok \in BOOLEAN
    /\ llmPc = "entry"
    /\ attempt = 0
    /\ outcomes = <<>>
    /\ sleeps = <<>>
    /\ llmResult = "none"

\* the guard in front of the loop: _generate_sync returns the mock report
\* without a key or model (report_generator.py 69-70); _read_sync skips the
\* validation without use_gemini (odometer_reader.py 232)
LlmEnter ==
    /\ llmPc = "entry"
    /\ IF api_key_ok
       THEN /\ llmPc' = "submit"
            /\ UNCHANGED llmResult
       ELSE /\ llmPc' = "returned"
            /\ llmResult' = Fallback(llmCaller)
    /\ UNCHANGED <<llmCaller, api_key_ok, attempt, outcomes, sleeps>>
    /\ UNCHANGED notG

\* LlmAttempt whose last failed attempt re-raises instead of falling back
LlmAttemptReraise ==
    /\ llmPc = "submit"
    /\ \E o \in CollaboratorOutcomes :
         /\ outcomes' = Append(outcomes, o)
         /\ IF o = "never"
            THEN /\ llmPc' = "blocked"
                 /\ UNCHANGED <<attempt, sleeps, llmResult>>
            ELSE IF o \in Responses
            THEN /\ llmPc' = "parse"
                 /\ UNCHANGED <<attempt, sleeps, llmResult>>
            ELSE IF o \in NotRetried
            THEN /\ llmPc' = "returned"
                 /\ llmResult' = Fallback(llmCaller)
                 /\ UNCHANGED <<attempt, sleeps>>
            ELSE IF attempt < max_retries
            THEN /\ sleeps' = Append(sleeps, Backoff(attempt))
                 /\ attempt' = attempt + 1
                 /\ UNCHANGED <<llmPc, llmResult>>
            ELSE /\ llmPc' = "raised"
                 /\ UNCHANGED <<attempt, sleeps, llmResult>>
    /\ UNCHANGED <<llmCaller, api_key_ok>>
    /\ UNCHANGED notG

\* one iteration of the retry loop (report_generator.py 84-128,
\* odometer_reader.py 354-394): submit generate_content to a one-worker
\* executor and wait for it with future.result(timeout=timeout_seconds) inside
\* `with ThreadPoolExecutor(...)`.  Leaving the with block joins the worker
\* (shutdown(wait=True)), so a timeout is handled only once generate_content
\* has finished, and never if it does not finish.
LlmAttempt ==
    /\ llmPc = "submit"
    /\ \E o \in CollaboratorOutcomes :
         /\ outcomes' = Append(outcomes, o)
         /\ IF o = "never"
            THEN /\ llmPc' = "blocked"
                 /\ UNCHANGED <<attempt, sleeps, llmResult>>
            ELSE IF o \in Responses
            THEN /\ llmPc' = "parse"
                 /\ UNCHANGED <<attempt, sleeps, llmResult>>
            ELSE IF o \in NotRetried
            THEN /\ llmPc' = "returned"
                 /\ llmResult' = Fallback(llmCaller)
                 /\ UNCHANGED <<attempt, sleeps>>
            ELSE IF attempt < max_retries
            THEN /\ sleeps' = Append(sleeps, Backoff(attempt))
                 /\ attempt' = attempt + 1
                 /\ UNCHANGED <<llmPc, llmResult>>
            ELSE /\ llmPc' = "returned"
                 /\ llmResult' = Fallback(llmCaller)
                 /\ UNCHANGED <<attempt, sleeps>>
    /\ UNCHANGED <<llmCaller, api_key_ok>>
    /\ UNCHANGED notG

\* after the loop (report_generator.py 134-157, odometer_reader.py 396-419):
\* response.text is read and searched for a JSON object.  The report falls
\* back to the mock report when that raises, and builds a report from the text
\* when there is no JSON; the validation returns a reading only for a JSON
\* object with a value in range.
LlmParse ==
    /\ llmPc = "parse"
    /\ LET o == outcomes[Len(outcomes)]
       IN IF llmCaller = "report"
          THEN llmResult' = CASE o = "response_json" -> "llm_report"
                              [] o = "response_text" -> "text_report"
                              [] OTHER -> "mock_report"
          ELSE IF o = "response_json"
               THEN llmResult' \in { "validated", "None" }
               ELSE llmResult' = "None"
    /\ llmPc' = "returned"
    /\ UNCHANGED <<llmCaller, api_key_ok, attempt, outcomes, sleeps>>
    /\ UNCHANGED notG

GNext ==
    \/ LlmEnter
    \/ LlmAttempt
    \/ LlmParse

-----------------------------------------------------------------------------
(* The confidence each stage computes, as a percentage                       *)

Min(a, b) == IF a <= b THEN a ELSE b

\* image statistics that are fractions of one: contrast, edge density,
\* saturation / 255, value / 255, engine and softmax probabilities
Percents == { 0, 10, 25, 40, 50, 60, 75, 90, 100 }
\* contour areas the size filters let through (rust: area > 2000; dent:
\* 2000 < area < 100000)
Areas == { 2001, 20000, 50000, 99999 }
\* circularity above the 0.4 filter of the dent pass
Circularities == { 41, 70, 100 }
\* (edge_intensity - center_intensity) / 255
ShadowContrasts == { -100, -30, 0, 20, 30, 100 }
\* the "confidence" field of the JSON object the LLM returns: any number
LlmConfidences == { -50, 0, 85, 100, 150 }
MIN_CONFIDENCE_THRESHOLD == 30

\* damage_detector.py 140: min(0.95, 0.4 + contrast * 0.4 + edge_density * 0.2)
ScratchConfidence(contrast, edge_density) ==
    Min(95, 40 + (contrast * 40 + edge_density * 20) \div 100)

\* damage_detector.py 229-231
RustConfidence(rust_saturation, rust_value, area) ==
    LET color_confidence == Min(90, (rust_saturation * 50 + rust_value * 30) \div 100)
        area_confidence == Min(90, (area * 100) \div 50000)
    IN (color_confidence + area_confidence) \div 2

\* damage_detector.py 327-333
DentConfidence(area, circularity, shadow_contrast) ==
    LET area_confidence == Min(80, (area * 100) \div 50000)
        circularity_confidence == Min(70, circularity)
        shadow_confidence == Min(60, shadow_contrast * 2)
    IN (area_confidence * 30 + circularity_confidence * 30 + shadow_confidence * 40) \div 100

\* odometer_reader.py 171-172 and 201-208: the engine's confidence, boosted by
\* 1.1 for the enhanced image and again for a 5-7 digit number, capped at 1.0
OcrConfidence(engine, enhanced, digits57) ==
    LET c == IF enhanced THEN Min((engine * 110) \div 100, 100) ELSE engine
    IN Min((c * (IF digits57 THEN 110 ELSE 100)) \div 100, 100)

\* odometer_reader.py 415: float(result.get("confidence", 0.7))
ValidatedConfidence(llm_confidence) == llm_confidence

\* exhaust_classifier.py 102-115 and 168: the mean of per-frame 0.7 / 0.6 / 0.5
ExhaustFrameConfidences == { 50, 60, 70 }

CIdle ==
    /\ confSource = "none"
    /\ confValue = 0

CInit == CIdle

\* a scratch that passes the confidence filter (damage_detector.py 140-144)
ScratchDetection ==
    /\ \E contrast \in Percents, edge_density \in Percents :
        /\ ScratchConfidence(contrast, edge_density) >= MIN_CONFIDENCE_THRESHOLD
        /\ confValue' = ScratchConfidence(contrast, edge_density)
    /\ confSource' = "scratch"
    /\ UNCHANGED notC

\* a rust area that passes the filter (229-234)
RustDetection ==
    /\ \E rust_saturation \in Percents, rust_value \in Percents, area \in Areas :
        /\ RustConfidence(rust_saturation, rust_value, area) >= MIN_CONFIDENCE_THRESHOLD
        /\ confValue' = RustConfidence(rust_saturation, rust_value, area)
    /\ confSource' = "rust"
    /\ UNCHANGED notC

\* a dent that passes the filter (327-336)
DentDetection ==
    /\ \E area \in Areas, circularity \in Circularities, shadow_contrast \in ShadowContrasts :
        /\ DentConfidence(area, circularity, shadow_contrast) >= MIN_CONFIDENCE_THRESHOLD
        /\ confValue' = DentConfidence(area, circularity, shadow_contrast)
    /\ confSource' = "dent"
    /\ UNCHANGED notC

\* the odometer result from OCR alone (odometer_reader.py 262-266)
OcrReading ==
    /\ \E engine \in Percents, enhanced \in BOOLEAN, digits57 \in BOOLEAN :
        confValue' = OcrConfidence(engine, enhanced, digits57)
    /\ confSource' = "odometer_ocr"
    /\ UNCHANGED notC

\* the odometer result when the LLM validated the reading (232-237, 411-419):
\* the validated reading replaces the OCR readings
ValidatedReading ==
    /\ \E llm_confidence \in LlmConfidences :
        confValue' = ValidatedConfidence(llm_confidence)
    /\ confSource' = "odometer_llm"
    /\ UNCHANGED notC

\* vehicle_identifier.py 191-194 (a softmax probability) and 204-206 (0.0)
VehicleIdentification ==
    /\ \E prob \in Percents : confValue' = prob
    /\ confSource' = "vehicle"
    /\ UNCHANGED notC

\* exhaust_classifier.py 153-173: 0.5 without features, else the mean over the
\* frames (here of one or two frames)
ExhaustClassification ==
    /\ \E a \in ExhaustFrameConfidences, b \in ExhaustFrameConfidences :
        confValue' = (a + b) \div 2
    /\ confSource' = "exhaust"
    /\ UNCHANGED notC

CNext ==
    \/ ScratchDetection
    \/ RustDetection
    \/ DentDetection
    \/ OcrReading
    \/ ValidatedReading
    \/ VehicleIdentification
    \/ ExhaustClassification

-----------------------------------------------------------------------------
(* The files two requests persist and the paths they return                  *)

Requests == { 1, 2 }

\* inspection ids the schema accepts
AnyInspectionIds == { "insp1", "insp2", "../../x", "insp2/../insp1", "/tmp/x" }

\* snapshots_dir of DamageDetector._detect_sync (damage_detector.py 50-55) and
\* of ExhaustClassifier._classify_sync (exhaust_classifier.py 46-51)
SnapshotsDir(inspection_id, backend_root, kind) ==
    Join(FramesDir(inspection_id, backend_root), <<kind>>)

\* os.path.relpath(snapshot_path_full, backend_uploads_path)
SnapshotRelPath(snapshot_path_full, backend_root) ==
    RelPath(snapshot_path_full, UploadsDir(backend_root))

FIdle ==
    /\ inspection_ids = [ r \in Requests |-> "insp1" ]
    /\ storePc = [ r \in Requests |-> "done" ]
    /\ nframes = [ r \in Requests |-> 0 ]
    /\ written = [ r \in Requests |-> {} ]
    /\ response_paths = [ r \in Requests |-> {} ]

FInit ==
    /\ inspection_ids \in [ Requests -> AnyInspectionIds ]
    /\ storePc = [ r \in Requests |-> "extract" ]
    /\ nframes = [ r \in Requests |-> 0 ]
    /\ written = [ r \in Requests |-> {} ]
    /\ response_paths = [ r \in Requests |-> {} ]

\* extract_video_frames (process.py 106-147): the frames are written into
\* frames_dir and returned relative to the uploads directory
PersistFrames(r) ==
    /\ storePc[r] = "extract"
    /\ \E n \in 1 .. MaxFrames :
         LET backend_root == get_backend_root
             extracted == ExtractedFrames(n, FramesDir(inspection_ids[r], backend_root))
         IN /\ nframes' = [ nframes EXCEPT ![r] = n ]
            /\ written' = [ written EXCEPT ![r] =
                              @ \cup { Resolve(extracted[i]) : i \in 1 .. n } ]
            /\ response_paths' = [ response_paths EXCEPT ![r] =
                  @ \cup { [ field |-> "frames",
                             path |-> convert_to_relative_path(extracted[i], backend_root) ] :
                           i \in 1 .. n } ]
    /\ storePc' = [ storePc EXCEPT ![r] = "damage" ]
    /\ UNCHANGED inspection_ids
    /\ UNCHANGED notF

\* the frame paths process_video hands to the damage and exhaust stages
\* (process.py 324, 348, 354)
StageFramePaths(r) ==
    LET backend_root == get_backend_root
        extracted == ExtractedFrames(nframes[r], FramesDir(inspection_ids[r], backend_root))
        fr == [ i \in 1 .. nframes[r] |-> convert_to_relative_path(extracted[i], backend_root) ]
    IN FramesAbsolute(fr, backend_root)

\* DamageDetector._detect_sync when it keeps a scratch in frame 0 or keeps
\* nothing: the crop is written into snapshots_dir; the location carries the
\* frame path it was given and the snapshot path relative to the uploads
\* directory (damage_detector.py 176-195); detect_damage returns it as it is
\* (process.py 346-350)
DamageStage(r) ==
    /\ storePc[r] = "damage"
    /\ \E found \in BOOLEAN :
         IF found
         THEN LET backend_root == get_backend_root
                  snapshot_path_full ==
                      Join(SnapshotsDir(inspection_ids[r], backend_root, "damage_snapshots"),
                           <<"scratch_001_frame_0000.jpg">>)
              IN /\ written' = [ written EXCEPT ![r] = @ \cup { Resolve(snapshot_path_full) } ]
                 /\ response_paths' = [ response_paths EXCEPT ![r] =
                       @ \cup { [ field |-> "damage.frame", path |-> StageFramePaths(r)[1] ],
                                [ field |-> "damage.snapshot",
                                  path |-> SnapshotRelPath(snapshot_path_full, backend_root) ] } ]
         ELSE UNCHANGED <<written, response_paths>>
    /\ storePc' = [ storePc EXCEPT ![r] = "exhaust" ]
    /\ UNCHANGED <<inspection_ids, nframes>>
    /\ UNCHANGED notF

\* ExhaustClassifier._classify_sync: the rear region of the best frame is
\* written into snapshots_dir and its path made relative to the uploads
\* directory (exhaust_classifier.py 136-149); classify_exhaust then applies
\* convert_to_relative_path to that relative path (process.py 352-359)
ExhaustStage(r) ==
    /\ storePc[r] = "exhaust"
    /\ \E found \in BOOLEAN :
         IF found
         THEN LET backend_root == get_backend_root
                  snapshot_path_full ==
                      Join(SnapshotsDir(inspection_ids[r], backend_root, "exhaust_snapshots"),
                           <<"exhaust_frame_0000.jpg">>)
                  exhaust_image_path == SnapshotRelPath(snapshot_path_full, backend_root)
              IN /\ written' = [ written EXCEPT ![r] = @ \cup { Resolve(snapshot_path_full) } ]
                 /\ response_paths' = [ response_paths EXCEPT ![r] =
                       @ \cup { [ field |-> "exhaust_image_path",
                                  path |-> convert_to_relative_path(exhaust_image_path,
                                                                    backend_root) ] } ]
         ELSE UNCHANGED <<written, response_paths>>
    /\ storePc' = [ storePc EXCEPT ![r] = "done" ]
    /\ UNCHANGED <<inspection_ids, nframes>>
    /\ UNCHANGED notF

FNext ==
    \E r \in Requests :
        \/ PersistFrames(r)
        \/ DamageStage(r)
        \/ ExhaustStage(r)

-----------------------------------------------------------------------------
(* The damage engine: services/damage_detector.py, _detect_sync *)

DamageTypes == { "scratch", "rust", "dent" }

\* the half-width of the duplicate window of each type, and its depth in frames
SCRATCH_RADIUS == 50
RUST_RADIUS == 80
DENT_RADIUS == 60
FRAME_WINDOW == 3

DedupRadius(type) ==
    CASE type = "scratch" -> SCRATCH_RADIUS
      [] type = "rust"    -> RUST_RADIUS
      [] type = "dent"    -> DENT_RADIUS

\* the verdict keeps the first 20 locations
MAX_LOCATIONS == 20

Abs(n) == IF n < 0 THEN 0 - n ELSE n

\* number of frames handed to the engine
NumFrames == MaxDamageFrames

\* bounding-box centers a detection may have
Centers == { <<0, 0>>, <<40, 40>>, <<50, 0>>, <<55, 0>>, <<70, 0>>, <<300, 300>> }

\* confidences of the detections that pass MIN_CONFIDENCE_THRESHOLD
CandidateConfidences == { 30, 95 }
DetectionConfidences == { 30, 50, 60, 95 }

NoCandidate ==
    [ type |-> "none", x |-> 0, y |-> 0, frame |-> -1, before |-> {}, discarded |-> FALSE ]
NoVerdict == [ severity |-> "none" ]

\* a duplicate check that looks at the accepted detections of every type
IsDuplicateAnyType(type, center_x, center_y, idx, regions) ==
    \E t \in DamageTypes : \E prev \in regions[t] :
        /\ Abs(prev[1] - center_x) < DedupRadius(type)
        /\ Abs(prev[2] - center_y) < DedupRadius(type)
        /\ Abs(prev[3] - idx) < FRAME_WINDOW

\* a duplicate check that looks at the current frame only
IsDuplicateSameFrame(type, center_x, center_y, idx, regions) ==
    \E prev \in regions[type] :
        /\ Abs(prev[1] - center_x) < DedupRadius(type)
        /\ Abs(prev[2] - center_y) < DedupRadius(type)
        /\ prev[3] = idx

\* lines 150-156, 238-244, 341-347: the loop over detected_regions[type]
IsDuplicate(type, center_x, center_y, idx, regions) ==
    \E prev \in regions[type] :
        /\ Abs(prev[1] - center_x) < DedupRadius(type)
        /\ Abs(prev[2] - center_y) < DedupRadius(type)
        /\ Abs(prev[3] - idx) < FRAME_WINDOW

total_damage == counts["scratch"] + counts["dent"] + counts["rust"]

\* a severity that takes the thresholds inclusively
SeverityInclusive(total, sum) ==
    IF total = 0 THEN "low"
    ELSE IF total >= 10 \/ (total >= 5 /\ sum >= 60 * total) THEN "high"
    ELSE IF total >= 3 \/ sum >= 50 * total THEN "medium"
    ELSE "low"

\* lines 395-407. sum is the sum of the confidences in percent, so that
\* avg_confidence > 0.6 is sum / total > 60, that is sum > 60 * total
Severity(total, sum) ==
    IF total = 0 THEN "low"
    ELSE IF total > 10 \/ (total > 5 /\ sum > 60 * total) THEN "high"
    ELSE IF total > 3 \/ sum > 50 * total THEN "medium"
    ELSE "low"

DIdle ==
    /\ dmgPc = "idle"
    /\ frame_idx = 0
    /\ detected_regions = [t \in DamageTypes |-> {}]
    /\ lastCandidate = NoCandidate
    /\ ncand = 0
    /\ counts = [t \in DamageTypes |-> 0]
    /\ conf_sum = 0
    /\ verdict = NoVerdict
    /\ frame_raised = FALSE

\* lines 42-62: the state on entry
DInit ==
    /\ dmgPc = "makedirs"
    /\ frame_idx = 0
    /\ detected_regions = [t \in DamageTypes |-> {}]
    /\ lastCandidate = NoCandidate
    /\ ncand = 0
    /\ counts = [t \in DamageTypes |-> 0]
    /\ conf_sum = 0
    /\ verdict = NoVerdict
    /\ frame_raised = FALSE

\* lines 50-55: with an inspection_id the snapshot directory is created before
\* the loop and outside every try; os.makedirs raises OSError when the
\* directory cannot be created
DamageMakedirs ==
    /\ dmgPc = "makedirs"
    /\ \E given \in BOOLEAN, created \in BOOLEAN :
          dmgPc' = IF given /\ ~created THEN "raised" ELSE "loop"
    /\ UNCHANGED <<frame_idx, detected_regions, lastCandidate, ncand, counts,
                   conf_sum, verdict, frame_raised>>
    /\ UNCHANGED notD

\* lines 68-70: cv2.imread returns None and the frame is passed over
FrameUnreadable ==
    /\ dmgPc = "loop"
    /\ frame_idx < NumFrames
    /\ lastCandidate.frame # frame_idx   \* nothing of this frame was examined
    /\ frame_idx' = frame_idx + 1
    /\ frame_raised' = FALSE
    /\ UNCHANGED <<dmgPc, detected_regions, lastCandidate, ncand, counts,
                   conf_sum, verdict>>
    /\ UNCHANGED notD

\* lines 65-390: the body of the loop for one frame comes to its end, or an
\* exception leaves it (lines 388-390: printed, continue); what the body has
\* already added to the counts, the regions and the locations stays
FrameEnds ==
    /\ dmgPc = "loop"
    /\ frame_idx < NumFrames
    /\ \E outcome \in { "processed", "raised" } :
          /\ frame_idx' = frame_idx + 1
          /\ frame_raised' = (outcome = "raised")
    /\ UNCHANGED <<dmgPc, detected_regions, lastCandidate, ncand, counts,
                   conf_sum, verdict>>
    /\ UNCHANGED notD

\* lines 147-196, 236-284, 339-387: one detection of the current frame that
\* passed the confidence threshold reaches the duplicate check; a duplicate is
\* dropped, anything else is counted, remembered and appended to the locations
Candidate ==
    /\ dmgPc = "loop"
    /\ frame_idx < NumFrames
    /\ ncand < MaxCandidates
    /\ \E type \in DamageTypes, center \in Centers, confidence \in CandidateConfidences :
          LET is_duplicate ==
                  IsDuplicate(type, center[1], center[2], frame_idx, detected_regions)
          IN  /\ lastCandidate' = [ type |-> type, x |-> center[1], y |-> center[2],
                                    frame |-> frame_idx,
                                    before |-> detected_regions[type],
                                    discarded |-> is_duplicate ]
              /\ IF is_duplicate
                   THEN UNCHANGED <<detected_regions, counts, conf_sum>>
                   ELSE /\ counts' = [counts EXCEPT ![type] = @ + 1]
                        /\ detected_regions' =
                               [detected_regions EXCEPT
                                   ![type] = @ \cup { <<center[1], center[2], frame_idx>> }]
                        /\ conf_sum' = conf_sum + confidence
    /\ ncand' = ncand + 1
    /\ UNCHANGED <<dmgPc, frame_idx, verdict, frame_raised>>
    /\ UNCHANGED notD

\* lines 170-196 alone: a detection that is no duplicate of anything is counted
\* and appended to the locations (its position left out)
RetainDetection ==
    /\ dmgPc = "loop"
    /\ frame_idx < NumFrames
    /\ total_damage < MaxDetections
    /\ \E type \in DamageTypes, confidence \in DetectionConfidences :
          /\ counts' = [counts EXCEPT ![type] = @ + 1]
          /\ conf_sum' = conf_sum + confidence
    /\ UNCHANGED <<dmgPc, frame_idx, detected_regions, lastCandidate, ncand, verdict,
                   frame_raised>>
    /\ UNCHANGED notD

\* lines 392-424: after the last frame the severity is computed and the
\* dictionary returned
DamageReturn ==
    /\ dmgPc = "loop"
    /\ frame_idx = NumFrames
    /\ verdict' = [ scratches |-> counts["scratch"],
                    dents |-> counts["dent"],
                    rust |-> counts["rust"],
                    severity |-> Severity(total_damage, conf_sum),
                    nlocations |-> Min(total_damage, MAX_LOCATIONS) ]
    /\ dmgPc' = "returned"
    /\ UNCHANGED <<frame_idx, detected_regions, lastCandidate, ncand, counts, conf_sum,
                   frame_raised>>
    /\ UNCHANGED notD

DNext ==
    \/ DamageMakedirs
    \/ FrameUnreadable
    \/ FrameEnds
    \/ Candidate
    \/ DamageReturn

-----------------------------------------------------------------------------
(* The severity as a function of the total and the mean confidence:         *)
(* damage_detector.py 400-407                                               *)

\* mean confidences, in percent, on both sides of the two thresholds
MeanConfidences == { 30, 50, 51, 60, 61, 95 }

\* the order low < medium < high
SeverityRank(severity) ==
    CASE severity = "low"    -> 0
      [] severity = "medium" -> 1
      [] severity = "high"   -> 2

\* a severity that calls few detections of high confidence severe
SeverityOfMeanFewIsHigh(total, avg_confidence) ==
    IF total = 0 THEN "low"
    ELSE IF total > 10 \/ (total <= 5 /\ avg_confidence > 60) THEN "high"
    ELSE IF total > 3 \/ avg_confidence > 50 THEN "medium"
    ELSE "low"

\* lines 400-407, avg_confidence in percent
SeverityOfMean(total, avg_confidence) ==
    IF total = 0 THEN "low"
    ELSE IF total > 10 \/ (total > 5 /\ avg_confidence > 60) THEN "high"
    ELSE IF total > 3 \/ avg_confidence > 50 THEN "medium"
    ELSE "low"

MIdle ==
    /\ sev_total = 0
    /\ sev_mean = 0
    /\ sev_out = "none"
    /\ sev_prev = "none"

\* any total and any mean, the severity not computed yet
MInit ==
    /\ sev_total \in 0..MaxDetections
    /\ sev_mean \in MeanConfidences
    /\ sev_out = "none"
    /\ sev_prev = "none"

\* lines 400-407 applied to the total and the mean
ComputeSeverity ==
    /\ sev_out = "none"
    /\ sev_out' = SeverityOfMean(sev_total, sev_mean)
    /\ UNCHANGED <<sev_total, sev_mean, sev_prev>>
    /\ UNCHANGED notM

\* lines 400-407 applied again to a larger total at the same mean
ComputeSeverityOfMore ==
    /\ sev_out # "none"
    /\ \E more \in 1..MaxDetections :
          /\ sev_total + more <= MaxDetections + 1
          /\ sev_total' = sev_total + more
          /\ sev_out' = SeverityOfMean(sev_total + more, sev_mean)
    /\ sev_prev' = sev_out
    /\ UNCHANGED sev_mean
    /\ UNCHANGED notM

MNext ==
    \/ ComputeSeverity
    \/ ComputeSeverityOfMore

-----------------------------------------------------------------------------
(* The frame extractor: services/frame_extractor.py, _extract_frames_sync *)

\* the interval used when the video reports no frame rate
NOMINAL_INTERVAL == 30

\* frame rates are counted in hundredths of a frame per second
FpsScale == 100

\* cv2.CAP_PROP_FPS of the videos: unreported (0), 0.5, 1, 2, 2.5 and 3 fps
ReportedFps == { 0, 50, 100, 200, 250, 300 }

\* the videos that can be opened: short ones of every frame rate whose sampled
\* frames may be blurry or repeated, and the 10-second 30 fps video with one
\* sharp, distinct frame per second
Videos ==
    [ fps : ReportedFps, decoded : 0..MaxDecodedFrames, clean : BOOLEAN ]
        \cup { [ fps |-> 30 * FpsScale, decoded |-> 300, clean |-> TRUE ] }

\* int(video_fps)
IntFps(fps) == fps \div FpsScale

CeilDiv(a, b) == (a + b - 1) \div b

\* a sampling test that takes the last frame of every interval
IsSampledLast(count, interval) == (count + 1) % interval = 0

\* line 158: frame_count % frame_interval == 0
IsSampled(count, interval) == count % interval = 0

XIdle ==
    /\ video = [ fps |-> 0, decoded |-> 0, clean |-> TRUE ]
    /\ xPc = "idle"
    /\ frame_interval = NoValue
    /\ frame_count = 0
    /\ saved_count = 0
    /\ frame_paths = <<>>
    /\ skipped_blurry = 0
    /\ skipped_duplicate = 0

\* lines 126-131: some video has been opened
XInit ==
    /\ video \in Videos
    /\ xPc = "open"
    /\ frame_interval = NoValue
    /\ frame_count = 0
    /\ saved_count = 0
    /\ frame_paths = <<>>
    /\ skipped_blurry = 0
    /\ skipped_duplicate = 0

\* lines 132-146: the properties are read and the interval computed
ComputeInterval ==
    /\ xPc = "open"
    /\ frame_interval' = IF video.fps > 0 THEN IntFps(video.fps) ELSE NOMINAL_INTERVAL
    /\ xPc' = "loop"
    /\ UNCHANGED <<video, frame_count, saved_count, frame_paths, skipped_blurry,
                   skipped_duplicate>>
    /\ UNCHANGED notX

\* lines 151-193: cap.read() delivers a frame; the sampling test divides by
\* the interval (ZeroDivisionError when it is 0); a sampled frame is passed
\* over as blurry or as a duplicate of the last saved one, or saved under the
\* next number
ReadFrame ==
    /\ xPc = "loop"
    /\ frame_count < video.decoded
    /\ IF frame_interval = 0
         THEN /\ xPc' = "raised"
              /\ UNCHANGED <<frame_count, saved_count, frame_paths, skipped_blurry,
                             skipped_duplicate>>
         ELSE /\ xPc' = xPc
              /\ frame_count' = frame_count + 1
              /\ IF ~IsSampled(frame_count, frame_interval)
                   THEN UNCHANGED <<saved_count, frame_paths, skipped_blurry,
                                    skipped_duplicate>>
                   ELSE \E quality \in IF video.clean THEN { "sharp" }
                                       ELSE IF saved_count > 0
                                              THEN { "sharp", "blurry", "duplicate" }
                                              ELSE { "sharp", "blurry" } :
                          CASE quality = "blurry" ->
                                  /\ skipped_blurry' = skipped_blurry + 1
                                  /\ UNCHANGED <<saved_count, frame_paths, skipped_duplicate>>
                            [] quality = "duplicate" ->
                                  /\ skipped_duplicate' = skipped_duplicate + 1
                                  /\ UNCHANGED <<saved_count, frame_paths, skipped_blurry>>
                            [] quality = "sharp" ->
                                  /\ frame_paths' =
                                         Append(frame_paths, [ file |-> saved_count,
                                                               decoded |-> frame_count ])
                                  /\ saved_count' = saved_count + 1
                                  /\ UNCHANGED <<skipped_blurry, skipped_duplicate>>
    /\ UNCHANGED <<video, frame_interval>>
    /\ UNCHANGED notX

\* lines 152-155, 195-203: cap.read() has no frame left, the list is returned
ReadEnd ==
    /\ xPc = "loop"
    /\ frame_count = video.decoded
    /\ xPc' = "returned"
    /\ UNCHANGED <<video, frame_interval, frame_count, saved_count, frame_paths,
                   skipped_blurry, skipped_duplicate>>
    /\ UNCHANGED notX

XNext ==
    \/ ComputeInterval
    \/ ReadFrame
    \/ ReadEnd

-----------------------------------------------------------------------------
(* The responses of process_video to an internal exception:                 *)
(* process.py 305-313, 129-134, 401-412                                     *)

Environments == { "production", "development" }

\* str(e) of the exceptions
Messages == { "CUDA out of memory", "[Errno 28] No space left on device",
              "/srv/app/models/yolov8n.pt", "api_key=sk-1f0c" }

ErrorSites == { "initialization", "extraction", "analysis", "synthesis" }

NoDetail == <<>>

\* line 411: the detail of the generic clause
GenericDetail(env, message) ==
    IF env # "production" THEN <<"Failed to process video: ", message>>
    ELSE <<"Failed to process video">>

\* the HTTPException an exception of class kind raised at site is turned into
ErrorResponse(site, env, kind, message) ==
    CASE site = "initialization" ->
            \* lines 307-313: any Exception
            [ status |-> HTTP_500_INTERNAL_SERVER_ERROR,
              detail |-> <<"Failed to initialize ML services: ", message>> ]
      [] site = "extraction" ->
            \* lines 129-134: any Exception but the timeout
            [ status |-> HTTP_500_INTERNAL_SERVER_ERROR,
              detail |-> <<"Failed to extract frames from video: ", message>> ]
      [] OTHER ->
            \* lines 403-412: by class
            IF kind = "ValueError"
            THEN [ status |-> StatusOfException(kind),
                   detail |-> <<"Validation error: ", message>> ]
            ELSE IF kind = "FileNotFoundError"
            THEN [ status |-> StatusOfException(kind),
                   detail |-> <<"File not found: ", message>> ]
            ELSE [ status |-> StatusOfException(kind),
                   detail |-> GenericDetail(env, message) ]

EIdle ==
    /\ node_env = "development"
    /\ exc = [ kind |-> NoExc, message |-> "" ]
    /\ errSite = "none"
    /\ errStatus = 0
    /\ errDetail = NoDetail

\* a request in some environment, and the exception that is going to be raised
EInit ==
    /\ node_env \in Environments
    /\ exc \in [ kind : ExcKinds, message : Messages ]
    /\ errSite = "none"
    /\ errStatus = 0
    /\ errDetail = NoDetail

\* lines 305-313: initialize_ml_services raises
InitializationRaises ==
    /\ errSite = "none"
    /\ errSite' = "initialization"
    /\ LET r == ErrorResponse("initialization", node_env, exc.kind, exc.message)
       IN  errStatus' = r.status /\ errDetail' = r.detail
    /\ UNCHANGED <<node_env, exc>>
    /\ UNCHANGED notE

\* lines 116-134: frame_extractor.extract_frames raises
ExtractionRaises ==
    /\ errSite = "none"
    /\ errSite' = "extraction"
    /\ LET r == ErrorResponse("extraction", node_env, exc.kind, exc.message)
       IN  errStatus' = r.status /\ errDetail' = r.detail
    /\ UNCHANGED <<node_env, exc>>
    /\ UNCHANGED notE

\* lines 363-373, 401-412: asyncio.gather raises the exception of a stage
AnalysisRaises ==
    /\ errSite = "none"
    /\ errSite' = "analysis"
    /\ LET r == ErrorResponse("analysis", node_env, exc.kind, exc.message)
       IN  errStatus' = r.status /\ errDetail' = r.detail
    /\ UNCHANGED <<node_env, exc>>
    /\ UNCHANGED notE

\* lines 380-385, 401-412: report_generator.generate raises
SynthesisRaises ==
    /\ errSite = "none"
    /\ errSite' = "synthesis"
    /\ LET r == ErrorResponse("synthesis", node_env, exc.kind, exc.message)
       IN  errStatus' = r.status /\ errDetail' = r.detail
    /\ UNCHANGED <<node_env, exc>>
    /\ UNCHANGED notE

ENext ==
    \/ InitializationRaises
    \/ ExtractionRaises
    \/ AnalysisRaises
    \/ SynthesisRaises

-----------------------------------------------------------------------------
(* The verdict of the damage engine: damage_detector.py 392-424 *)

\* a run that retained n weak scratches, with a strong dent in place of the
\* i-th and a rust spot of middling confidence in place of the j-th of them
\* (0: not there)
WeakScratch == [ type |-> "scratch", confidence |-> 30 ]
StrongDent == [ type |-> "dent", confidence |-> 95 ]
MiddlingRust == [ type |-> "rust", confidence |-> 60 ]

RetainedList(n, i, j) ==
    [ k \in 1 .. n |-> IF k = i THEN StrongDent
                       ELSE IF k = j THEN MiddlingRust
                       ELSE WeakScratch ]

RECURSIVE CountOfType(_, _)
CountOfType(type, locations) ==
    IF locations = <<>> THEN 0
    ELSE (IF Head(locations).type = type THEN 1 ELSE 0) + CountOfType(type, Tail(locations))

RECURSIVE ConfidenceSum(_)
ConfidenceSum(locations) ==
    IF locations = <<>> THEN 0
    ELSE Head(locations).confidence + ConfidenceSum(Tail(locations))

\* a sort that leaves the list as it is
KeepOrder(locations) == locations

\* x put into a list sorted by falling confidence, behind its equals
RECURSIVE InsertByConfidence(_, _)
InsertByConfidence(x, sorted) ==
    IF sorted = <<>> THEN <<x>>
    ELSE IF Head(sorted).confidence >= x.confidence
         THEN <<Head(sorted)>> \o InsertByConfidence(x, Tail(sorted))
         ELSE <<x>> \o sorted

RECURSIVE SortedPrefix(_, _)
SortedPrefix(locations, n) ==
    IF n = 0 THEN <<>>
    ELSE InsertByConfidence(locations[n], SortedPrefix(locations, n - 1))

\* line 393: list.sort(key=confidence, reverse=True), a stable sort
SortByConfidence(locations) == SortedPrefix(locations, Len(locations))

LIdle ==
    /\ retained = <<>>
    /\ damage_locations = <<>>
    /\ tally = [t \in DamageTypes |-> 0]
    /\ asmPc = "idle"
    /\ result = NoVerdict

\* line 390: the loop over the frames is over; every retained detection was
\* counted and appended (lines 171-195)
LInit ==
    /\ \E n \in 0 .. MaxRetained : \E i, j \in 0 .. n :
          retained = RetainedList(n, i, j)
    /\ damage_locations = retained
    /\ tally = [t \in DamageTypes |-> CountOfType(t, retained)]
    /\ asmPc = "loop_done"
    /\ result = NoVerdict

\* line 393
SortLocations ==
    /\ asmPc = "loop_done"
    /\ damage_locations' = SortByConfidence(damage_locations)
    /\ asmPc' = "sorted"
    /\ UNCHANGED <<retained, tally, result>>
    /\ UNCHANGED notL

\* lines 395-424: the severity from the counts and from the mean over
\* damage_locations, the first 20 locations
ReturnVerdict ==
    /\ asmPc = "sorted"
    /\ LET total == tally["scratch"] + tally["dent"] + tally["rust"]
       IN  result' = [ scratches |-> tally["scratch"],
                       dents |-> tally["dent"],
                       rust |-> tally["rust"],
                       severity |-> Severity(total, ConfidenceSum(damage_locations)),
                       locations |-> SubSeq(damage_locations, 1,
                                            Min(Len(damage_locations), MAX_LOCATIONS)) ]
    /\ asmPc' = "returned"
    /\ UNCHANGED <<retained, damage_locations, tally>>
    /\ UNCHANGED notL

LNext ==
    \/ SortLocations
    \/ ReturnVerdict

-----------------------------------------------------------------------------
(* Specifications *)

Init == PInit /\ RInit /\ SIdle /\ GIdle /\ CIdle /\ FIdle /\ DIdle /\ MIdle /\ XIdle /\ EIdle /\ LIdle

Next == PNext

Spec == Init /\ [][Next]_vars

\* the registry on its own, beside one request that is not being processed
IdleRequest ==
    /\ PInit
    /\ mock
    /\ body = [ video_path |-> NoPath, inspection_id |-> "insp1",
                odometer_image_path |-> NoPath ]
    /\ \A p \in DOMAIN fs : p # Uploads => fs[p] = "file"

RegistryInit == IdleRequest /\ RInit /\ SIdle /\ GIdle /\ CIdle /\ FIdle /\ DIdle /\ MIdle /\ XIdle /\ EIdle /\ LIdle

RegistryNext == RNext

SpecRegistry == RegistryInit /\ [][RegistryNext]_vars

\* the service process over several requests, the registry as constructed
ServiceInit == IdleRequest /\ RInit /\ SInit /\ GIdle /\ CIdle /\ FIdle /\ DIdle /\ MIdle /\ XIdle /\ EIdle /\ LIdle

ServiceNext == SNext

SpecService == ServiceInit /\ [][ServiceNext]_vars

\* one call of the Gemini collaborator
LLMInit == IdleRequest /\ RInit /\ SIdle /\ GInit /\ CIdle /\ FIdle /\ DIdle /\ MIdle /\ XIdle /\ EIdle /\ LIdle

LLMNext == GNext

SpecLLM == LLMInit /\ [][LLMNext]_vars

\* the same, with the thread that runs the call never starved: whatever step
\* of the call can be taken is eventually taken
SpecLLMFair == SpecLLM /\ WF_vars(LLMNext)

\* the confidences the stages compute
ConfidenceInit == IdleRequest /\ RInit /\ SIdle /\ GIdle /\ CInit /\ FIdle /\ DIdle /\ MIdle /\ XIdle /\ EIdle /\ LIdle

ConfidenceNext == CNext

SpecConfidence == ConfidenceInit /\ [][ConfidenceNext]_vars

\* the files and paths of two requests
StorageInit == IdleRequest /\ RInit /\ SIdle /\ GIdle /\ CIdle /\ FInit /\ DIdle /\ MIdle /\ XIdle /\ EIdle /\ LIdle

StorageNext == FNext

SpecStorage == StorageInit /\ [][StorageNext]_vars


\* one run of the damage engine over NumFrames frames
DamageInit == IdleRequest /\ RInit /\ SIdle /\ GIdle /\ CIdle /\ FIdle /\ DInit /\ MIdle /\ XIdle /\ EIdle /\ LIdle

DamageNext == DNext

SpecDamage == DamageInit /\ [][DamageNext]_vars

\* the last frame of a run in which every earlier frame was passed over:
\* detections are retained, then the verdict is computed
SeverityInit ==
    /\ IdleRequest /\ RInit /\ SIdle /\ GIdle /\ CIdle /\ FIdle /\ MIdle /\ XIdle /\ EIdle /\ LIdle
    /\ dmgPc = "loop"
    /\ frame_idx = NumFrames - 1
    /\ detected_regions = [t \in DamageTypes |-> {}]
    /\ lastCandidate = NoCandidate
    /\ ncand = 0
    /\ counts = [t \in DamageTypes |-> 0]
    /\ conf_sum = 0
    /\ verdict = NoVerdict
    /\ frame_raised = FALSE

SeverityNext ==
    \/ RetainDetection
    \/ FrameEnds
    \/ DamageReturn

SpecSeverity == SeverityInit /\ [][SeverityNext]_vars


\* the severity of growing totals at a fixed mean confidence
MonotoneInit == IdleRequest /\ RInit /\ SIdle /\ GIdle /\ CIdle /\ FIdle /\ DIdle /\ MInit /\ XIdle /\ EIdle /\ LIdle

MonotoneNext == MNext

SpecMonotone == MonotoneInit /\ [][MonotoneNext]_vars


\* one run of the frame extractor on an opened video
ExtractorInit == IdleRequest /\ RInit /\ SIdle /\ GIdle /\ CIdle /\ FIdle /\ DIdle /\ MIdle /\ XInit /\ EIdle /\ LIdle

ExtractorNext == XNext

SpecExtractor == ExtractorInit /\ [][ExtractorNext]_vars


\* one internal exception of a /process request
ErrorsInit == IdleRequest /\ RInit /\ SIdle /\ GIdle /\ CIdle /\ FIdle /\ DIdle /\ MIdle /\ XIdle /\ EInit /\ LIdle

ErrorsNext == ENext

SpecErrors == ErrorsInit /\ [][ErrorsNext]_vars


\* the verdict of a run that retained some detections
VerdictInit == IdleRequest /\ RInit /\ SIdle /\ GIdle /\ CIdle /\ FIdle /\ DIdle /\ MIdle /\ XIdle /\ EIdle /\ LInit

VerdictNext == LNext

SpecVerdict == VerdictInit /\ [][VerdictNext]_vars

-----------------------------------------------------------------------------
(* Properties of the pipeline *)

\* the request went through _validate_input_files and was not rejected by it
Passed == ~mock /\ pc \notin { "Received", "Validating" } /\ failedIn # "Validating"
Terminal == pc \in { "Complete", "Failed" }
ErrorStatuses == { HTTP_400_BAD_REQUEST, HTTP_404_NOT_FOUND, HTTP_408_REQUEST_TIMEOUT,
                   HTTP_500_INTERNAL_SERVER_ERROR }
NoStageStarted == (\A s \in Stages : stage[s] = "idle") /\ odoPc = "idle"
ExtractionGaveFrames == exState = "returned" /\ Len(frames) >= 1
ExtractionGaveNothing ==
    exState \in { "raised", "timedout" } \/ (exState = "returned" /\ frames = <<>>)

\* C1: no analysis stage starts before frame extraction has returned a non-empty
\* frame list; when extraction raises, times out or returns no frame, the request
\* has failed, no stage is ever started and the report generator is never invoked.
C1_ExtractionPrecedesAnalysis ==
    /\ \A s \in Stages : stage[s] # "idle" => ExtractionGaveFrames
    /\ odoPc # "idle" => ExtractionGaveFrames
    /\ synthCalled => ExtractionGaveFrames
    /\ ExtractionGaveNothing => (pc = "Failed" /\ NoStageStarted /\ ~synthCalled)

C1_Witness ==
    /\ ExtractionGaveFrames
    /\ stage["identify"] = "done"
    /\ stage["damage"] = "running"
    /\ odoPc = "dashboard"

\* C2 as stated: the orchestrator leaves ParallelAnalysis, to Synthesizing or to
\* a terminal state, only after all four stages have completed.
C2_Original ==
    (ExtractionGaveFrames /\ pc # "ParallelAnalysis")
        => \A s \in Stages : stage[s] \in { "done", "failed" }

\* C2, amended: the four stages are started together; the orchestrator leaves
\* ParallelAnalysis for Synthesizing only when all four stages have returned,
\* and leaves it for Failed only after a stage has failed (without waiting for
\* the stages that are still running).
C2_JoinOnSuccessOnly ==
    /\ pc = "ParallelAnalysis" => \A s \in Stages : stage[s] # "idle"
    /\ (\E s \in Stages : stage[s] # "idle") => (\A s \in Stages : stage[s] # "idle")
    /\ (Passed /\ pc \in { "Synthesizing", "Complete" }) => \A s \in Stages : stage[s] = "done"
    /\ (pc = "Failed" /\ failedIn = "ParallelAnalysis") => \E s \in Stages : stage[s] = "failed"

C2_Witness ==
    /\ pc = "Synthesizing"
    /\ \A s \in Stages : stage[s] = "done"

\* C3: once one of the four stages has raised, the report generator is never
\* invoked and the response is never a 200: the orchestrator is still waiting in
\* ParallelAnalysis with the exception ready to be raised, or has failed with an
\* error status.
C3_StageFailureAborts ==
    (\E s \in Stages : stage[s] = "failed") =>
        /\ ~synthCalled
        /\ status # HTTP_200_OK
        /\ pc \in { "ParallelAnalysis", "Failed" }
        /\ pc = "ParallelAnalysis" => (gatherExc # NoExc /\ ENABLED GatherRaise)
        /\ pc = "Failed" => status \in ErrorStatuses

C3_Witness ==
    /\ pc = "Failed"
    /\ failedIn = "ParallelAnalysis"
    /\ stage["identify"] = "failed"
    /\ stage["damage"] = "done"
    /\ status = HTTP_500_INTERNAL_SERVER_ERROR

\* C4 as stated: a request whose video passed validation ends with a success
\* payload holding at least one frame, or with status 400.
C4_Original ==
    (Passed /\ Terminal) =>
        \/ (status = HTTP_200_OK /\ Len(respFrames) >= 1)
        \/ status = HTTP_400_BAD_REQUEST

\* C4, amended: a request whose video passed validation ends with a success
\* payload holding at least one frame, or with an error status, which is 400
\* when extraction returned no frame; no success payload has an empty frames list.
C4_NoEmptySuccess ==
    /\ (Passed /\ Terminal) =>
          \/ (pc = "Complete" /\ status = HTTP_200_OK /\ Len(respFrames) >= 1)
          \/ (pc = "Failed" /\ status \in ErrorStatuses)
    /\ (exState = "returned" /\ frames = <<>>) =>
          (pc = "Failed" /\ status = HTTP_400_BAD_REQUEST)
    /\ status = HTTP_200_OK => Len(respFrames) >= 1

C4_Witness ==
    /\ Passed
    /\ exState = "returned"
    /\ frames = <<>>
    /\ pc = "Failed"
    /\ status = HTTP_400_BAD_REQUEST

\* C5: when frame extraction has not finished within EXTRACT_TIMEOUT seconds,
\* the request ends with status 408 and nothing else of the pipeline runs.
C5_ExtractionTimeoutIs408 ==
    /\ (exElapsed >= EXTRACT_TIMEOUT /\ pc # "Extracting") =>
          (exState = "timedout" /\ pc = "Failed" /\ status = HTTP_408_REQUEST_TIMEOUT)
    /\ exState = "timedout" =>
          /\ pc = "Failed"
          /\ failedIn = "Extracting"
          /\ status = HTTP_408_REQUEST_TIMEOUT
          /\ NoStageStarted
          /\ ~synthCalled
    /\ status = HTTP_408_REQUEST_TIMEOUT => exState = "timedout"

C5_Witness ==
    /\ exState = "timedout"
    /\ exElapsed >= EXTRACT_TIMEOUT
    /\ status = HTTP_408_REQUEST_TIMEOUT

\* C6 as stated: when the read of a user-supplied odometer image times out or
\* raises, the stage returns value null, confidence 0 and the original path.
C6_Original ==
    odoPc \in { "image_timeout", "image_raised" } =>
        /\ stage["odometer"] = "done"
        /\ odometer_data = [ value |-> NoValue, confidence |-> 0,
                             speedometer_image_path |-> request.odometer_image_path ]

\* C6, amended: when the read of a user-supplied odometer image times out or
\* raises, the odometer stage ends without an exception and returns value null,
\* confidence 0 and the original path in storage-relative form (relative to the
\* uploads directory); if the other three stages have returned, the orchestrator
\* can go on to synthesis.
C6_OdometerFallback ==
    odoPc \in { "image_timeout", "image_raised" } =>
        /\ stage["odometer"] = "done"
        /\ odometer_data.value = NoValue
        /\ odometer_data.confidence = 0
        /\ ~IsAbs(odometer_data.speedometer_image_path)
        /\ Uploads \o odometer_data.speedometer_image_path
               = Resolve(request.odometer_image_path)
        /\ (pc = "ParallelAnalysis" /\ \A s \in Stages : stage[s] = "done")
               => ENABLED GatherJoin
        /\ pc = "Failed" => \E s \in Stages \ { "odometer" } : stage[s] = "failed"

C6_Witness ==
    /\ odoPc = "image_timeout"
    /\ odoElapsed >= ODOMETER_TIMEOUT
    /\ pc = "Synthesizing"

\* request paths that resolve outside the allowed base directory
ViolatingPaths == { TraversalPath, Uploads \o <<"..", "secret.mp4">> }

ValidVideo ==
    /\ request.video_path \in { Uploads \o <<"v.mp4">>, Uploads \o <<"tmp", "..", "v.mp4">> }
    /\ fs[VideoFile] = "file"

\* C8 as stated: a supplied odometer image that is missing is never fatal: when
\* validation rejects a request whose odometer image is missing, the reason is
\* the video.
C8_Original ==
    ( /\ failedIn = "Validating"
      /\ request.odometer_image_path # NoPath
      /\ ~exists(request.odometer_image_path) )
        => ~ValidVideo

\* C8, amended: a supplied odometer image that passes the containment check and
\* is missing is downgraded to absent and is not fatal: validation of a request
\* with a valid video then succeeds and leaves odometer_image_path unset.
C8_MissingOdometerDowngraded ==
    [][ ( /\ pc = "Validating"
          /\ ValidVideo
          /\ request.odometer_image_path # NoPath
          /\ request.odometer_image_path \notin ViolatingPaths
          /\ ~exists(request.odometer_image_path) )
          => /\ pc' = "InitServices"
             /\ status' = 0
             /\ failedIn' = "none"
             /\ request'.odometer_image_path = NoPath
             /\ request'.video_path = request.video_path ]_vars

C8_Witness ==
    /\ pc = "Extracting"
    /\ body.odometer_image_path = Uploads \o <<"odo.jpg">>
    /\ request.odometer_image_path = NoPath
    /\ failedIn = "none"

\* C23: an analysis stage failure that the stage does not absorb is answered
\* with status 500, whatever the class of the exception.
C23_Original ==
    (pc = "Failed" /\ failedIn = "ParallelAnalysis") =>
        status = HTTP_500_INTERNAL_SERVER_ERROR

\* the list a stage's service is called with: the odometer branch joins the
\* uploads directory to the paths it was handed (process.py 471), the other
\* three pass theirs on as they are (334, 348, 354)
StageInput(s) ==
    IF s = "odometer" THEN FramesAbsolute(stageFrames[s], get_backend_root)
    ELSE stageFrames[s]

\* C25: the lists the four stages work on denote the same files, the frames
\* extraction accepted.
C25_Original ==
    pc \in { "ParallelAnalysis", "Synthesizing", "Complete" } =>
        \A s \in Stages :
            /\ Len(StageInput(s)) = Len(frames)
            /\ \A i \in 1 .. Len(frames) :
                  AbsPath(StageInput(s)[i])
                      = AbsPath(Join(UploadsDir(get_backend_root), frames[i]))

\* the positions of the odometer branch on its two ways
ImageRoute == { "image", "image_returned", "image_raised", "image_timeout" }
FramesRoute == { "dashboard", "read", "frames_returned", "failed" }

-----------------------------------------------------------------------------
(* Properties of the ModelRegistry *)

C10_Original ==
    (lastGet.name # "none" /\ ~lastGet.is_initialized) => lastGet.result = "RuntimeError"

-----------------------------------------------------------------------------
(* Properties of the service process *)

-----------------------------------------------------------------------------
(* Properties of the Gemini calls *)

\* the call got a response from the collaborator in its last attempt
GotResponse == outcomes # <<>> /\ outcomes[Len(outcomes)] \in Responses

\* C12: report generation never raises, and whenever it returns without having
\* got a response from the collaborator (no API key, or the last attempt raised,
\* timed out or returned None) or with a response that cannot be read, it
\* returns the templated report.
C12_ReportFallsBack ==
    llmCaller = "report" =>
        /\ llmPc # "raised"
        /\ llmPc = "returned" =>
              /\ llmResult \in { "mock_report", "llm_report", "text_report" }
              /\ (~api_key_ok \/ ~GotResponse
                    \/ outcomes[Len(outcomes)] = "response_unreadable")
                    => llmResult = "mock_report"
              /\ llmResult = "llm_report" =>
                    (api_key_ok /\ outcomes[Len(outcomes)] = "response_json")

C12_Witness ==
    /\ llmCaller = "report"
    /\ llmPc = "returned"
    /\ outcomes = << "error_other", "late", "none" >>
    /\ llmResult = "mock_report"

\* C13: every call of the collaborator is bounded: the validation and the
\* report generation eventually return, whatever the collaborator does.
C13_Original == <>(llmPc \in { "returned", "raised" })

\* C14: one validation or report call makes at most max_retries + 1 = 3
\* attempts, sleeps 1 s and then 2 s between them and not after the last one,
\* and a 429-class or 403-class error ends the call at once.
C14_BoundedRetries ==
    /\ Len(outcomes) <= max_retries + 1
    /\ attempt <= max_retries
    /\ sleeps = SubSeq(<<1, 2>>, 1, attempt)
    /\ llmPc = "submit" => Len(outcomes) = attempt
    /\ llmPc \in { "parse", "blocked", "returned" } /\ outcomes # <<>>
          => Len(sleeps) = Len(outcomes) - 1
    /\ \A i \in 1..Len(outcomes) :
          outcomes[i] \in NotRetried =>
              /\ i = Len(outcomes)
              /\ llmPc = "returned"
              /\ llmResult = Fallback(llmCaller)

C14_Witness ==
    /\ llmPc = "returned"
    /\ Len(outcomes) = max_retries + 1
    /\ sleeps = <<1, 2>>
    /\ outcomes[3] = "error_other"

-----------------------------------------------------------------------------
(* Properties of the confidences *)

\* C15: every confidence that leaves the pipeline lies in [0, 1] (0 .. 100 as
\* a percentage).
C15_Original == confSource # "none" => (confValue >= 0 /\ confValue <= 100)

-----------------------------------------------------------------------------
(* Properties of the stored files and returned paths *)

\* C16: every path-bearing field of the response is storage-relative; no
\* absolute path is returned.
C16_Original ==
    \A r \in Requests : \A f \in response_paths[r] : ~IsAbs(f.path)

\* the directory that holds the per-inspection subtrees
FramesRoot == Uploads \o <<"frames">>

\* C17: every file a request persists lies in a per-inspection subtree of
\* uploads/frames/, and two requests with different inspection ids never write
\* the same file.
C17_Original ==
    /\ \A r \in Requests : \A p \in written[r] :
          /\ Len(p) >= Len(FramesRoot) + 2
          /\ SubSeq(p, 1, Len(FramesRoot)) = FramesRoot
    /\ inspection_ids[1] # inspection_ids[2] => written[1] \cap written[2] = {}


-----------------------------------------------------------------------------
(* Properties of the damage engine *)

\* C18: the damage engine never raises out of a run; and when no frame yields
\* a detection the verdict has all counts 0, severity low and no locations.
C18_Original ==
    /\ dmgPc # "raised"
    /\ (dmgPc = "returned" /\ total_damage = 0) =>
          /\ verdict.scratches = 0 /\ verdict.dents = 0 /\ verdict.rust = 0
          /\ verdict.severity = "low"
          /\ verdict.nlocations = 0

C20_SeverityTiers ==
    dmgPc = "returned" /\ verdict # NoVerdict =>
        LET total == verdict.scratches + verdict.dents + verdict.rust
            high == total > 10 \/ (total > 5 /\ conf_sum > 60 * total)
            medium == total > 3 \/ conf_sum > 50 * total
        IN  /\ verdict.severity \in { "low", "medium", "high" }
            /\ total = 0 => verdict.severity = "low"
            /\ total > 0 =>
                  /\ verdict.severity = "high" <=> high
                  /\ verdict.severity = "medium" <=> (~high /\ medium)
                  /\ verdict.severity = "low" <=> (~high /\ ~medium)

\* six detections of confidence 0.6 on average 0.6: not above it, so medium
C20_Witness ==
    /\ dmgPc = "returned"
    /\ verdict # NoVerdict
    /\ total_damage = 6
    /\ conf_sum = 360
    /\ verdict.severity = "medium"


\* C28: a frame whose processing raised has contributed nothing: no accepted
\* detection of the deduplication history stems from it (and so none of the
\* counts and none of the locations, which grow with the history).
C28_Original ==
    frame_raised =>
        \A t \in DamageTypes : \A region \in detected_regions[t] :
            region[3] # frame_idx - 1

\* C29: no two accepted detections of one type are duplicates of each other:
\* their centers are at least the type's radius apart on some axis, or their
\* frames at least 3 apart; and the count of each type is the number of its
\* accepted detections.
C29_NoDuplicatesRetained ==
    \A t \in DamageTypes :
        /\ \A a \in detected_regions[t] : \A b \in detected_regions[t] \ { a } :
              \/ Abs(a[1] - b[1]) >= DedupRadius(t)
              \/ Abs(a[2] - b[2]) >= DedupRadius(t)
              \/ Abs(a[3] - b[3]) >= FRAME_WINDOW
        /\ counts[t] = Cardinality(detected_regions[t])

\* two scratches at the same place, three frames apart, are both retained
C29_Witness ==
    /\ { <<0, 0, 0>>, <<0, 0, 3>> } \subseteq detected_regions["scratch"]
    /\ counts["scratch"] = 2
    /\ dmgPc = "returned"

-----------------------------------------------------------------------------
(* Properties of the severity function *)

\* C21: at a fixed mean confidence the severity never goes down when the total
\* damage count goes up, in the order low < medium < high.
C21_SeverityMonotone ==
    /\ sev_prev # "none" => SeverityRank(sev_prev) <= SeverityRank(sev_out)
    /\ sev_out # "none" =>
          \A n \in 0..sev_total :
              SeverityRank(SeverityOfMean(n, sev_mean)) <= SeverityRank(sev_out)

\* five detections of mean confidence 0.61 are medium, six or more are high
C21_Witness ==
    /\ sev_mean = 61
    /\ sev_total > 5
    /\ sev_prev = "medium"
    /\ sev_out = "high"


-----------------------------------------------------------------------------
(* Properties of the frame extractor *)

\* C26: when no sampled frame is passed over as blurry or duplicate, a video
\* of N decoded frames at F fps yields ceil(N / int(F)) frames, one per
\* sampling boundary, in decode order, saved as frame_0000, frame_0001, ...
\* without gaps.
C26_OnePerBoundary ==
    (xPc = "returned" /\ skipped_blurry = 0 /\ skipped_duplicate = 0
        /\ IntFps(video.fps) >= 1) =>
        /\ Len(frame_paths) = CeilDiv(video.decoded, IntFps(video.fps))
        /\ \A i \in 1..Len(frame_paths) :
              /\ frame_paths[i].file = i - 1
              /\ frame_paths[i].decoded = (i - 1) * IntFps(video.fps)

\* the 10-second 30 fps video yields 10 frames
C26_Witness ==
    /\ xPc = "returned"
    /\ video.fps = 30 * FpsScale
    /\ video.decoded = 300
    /\ Len(frame_paths) = 10
    /\ frame_paths[10] = [ file |-> 9, decoded |-> 270 ]

\* C30: the sampling interval is always a positive integer, int(fps) when the
\* frame rate is reported and 30 when it is not, and the sampling test never
\* fails.
C30_Original ==
    /\ xPc # "raised"
    /\ frame_interval # NoValue =>
          /\ frame_interval > 0
          /\ frame_interval = IF video.fps > 0 THEN IntFps(video.fps) ELSE NOMINAL_INTERVAL


-----------------------------------------------------------------------------
(* Properties of the error responses *)

\* C24: in production no 500 response carries the text of the exception: the
\* detail is the one any other message would have got, wherever the exception
\* was raised.
C24_Original ==
    (node_env = "production" /\ errStatus = HTTP_500_INTERNAL_SERVER_ERROR) =>
        \A other \in Messages :
            errDetail = ErrorResponse(errSite, node_env, exc.kind, other).detail


-----------------------------------------------------------------------------
(* Properties of the verdict *)

\* how often a detection occurs in a list
RECURSIVE Occurrences(_, _)
Occurrences(x, locations) ==
    IF locations = <<>> THEN 0
    ELSE (IF Head(locations) = x THEN 1 ELSE 0) + Occurrences(x, Tail(locations))

====
